---- MODULE Spec2Model ----
(***************************************************************************)
(* A model of the quest pipeline of smart_quest_system.py:                 *)
(* SmartQuestSystem.process_user_feedback and its five collaborators       *)
(* (OpenSearchClient, KendraClient, StrandsAgentSystem, DynamoDBClient,    *)
(* RAGQuestGenerator).                                                     *)
(*                                                                         *)
(* Text.  Every function of the source that reads a text only tests        *)
(* whether given keywords occur in it (`kw in text.lower()`), so a text is *)
(* modelled by the set of classifier keywords that occur in it.  No        *)
(* keyword of the source is a substring of another, so every set of        *)
(* keywords is the abstraction of some text.  The keywords are written in  *)
(* romanised form:                                                         *)
(*   mok (neck), eokkae (shoulder), heori (waist), tongjeung (pain),       *)
(*   geongang (health), undong (exercise), seuteureching (stretching),     *)
(*   mom (body); don (money), yesan (budget), tuja (investment),           *)
(*   jeochuk (saving), jaejeong (finances), geumyung (banking),            *)
(*   jusik (stocks), peondeu (fund); pibu (skin), seukinkeeo (skincare),   *)
(*   hwajangpum (cosmetics), sean (face washing), rosyeon (lotion),        *)
(*   keurim (cream), yeodeureum (acne).                                    *)
(*                                                                         *)
(* Scores.  Similarity and quality scores are floats with two decimals in  *)
(* the source; the model holds them multiplied by 100.                     *)
(***************************************************************************)
EXTENDS Integers, Sequences, FiniteSets, TLC

\* ------------------------------------------------------------- bounds

\* Requests made of one SmartQuestSystem.
MaxRequests == 2
\* Seconds the clock may advance (document ids have a resolution of 1 s).
MaxTime == 1
\* Length of a candidate list handed to the similarity gate on its own.
MaxCands == 3
\* Documents in the index when the index is called on its own.
MaxIndexed == 4
\* Length of a document list handed to the quest generator on its own.
MaxDocs == 3
\* Keywords occurring in a text handed to the classifier on its own.
MaxKeywords == 2
\* Days the clock of the quest agents may advance.
MaxDay == 1
\* Requests made to the feedback agent alone.
MaxFeedbacks == 2
\* Requests made to the two quest agents together.
MaxAgentCalls == 4

\* ---------------------------------------------------- program constants

\* threshold=0.7 of the pipeline's search
SearchThreshold == 70
\* limit=5 of the pipeline's search
SearchLimit == 5
\* similarity_score >= 0.85: reuse outright
HighSimilarity == 85
\* similarity_score >= 0.70: reuse when corroborated
MediumSimilarity == 70
\* quality_score of a newly authored document
NewQualityScore == 94

\* ------------------------------------------------------------ keywords

HealthKeywords ==
    {"mok", "eokkae", "heori", "tongjeung", "geongang", "undong",
     "seuteureching", "mom"}

FinanceKeywords ==
    {"don", "yesan", "tuja", "jeochuk", "jaejeong", "geumyung", "jusik",
     "peondeu"}

SkincareKeywords ==
    {"pibu", "seukinkeeo", "hwajangpum", "sean", "rosyeon", "keurim",
     "yeodeureum"}

Keywords == HealthKeywords \cup FinanceKeywords \cup SkincareKeywords

\* The feedback texts requests are made with, one for each way the pipeline
\* treats a text:
\*   {}              no keyword: no candidate, the default category
\*   {mok}           scores 0.9 against the seeded health document
\*   {undong}        scores 0.8 against the seeded health document only
\*   {don}           scores 0.85 against the seeded finance document
\*   {undong, don}   two candidates of different scores
\*   {pibu}          scores 0.9 against the seeded skincare document
\*   {tuja}          no candidate; finance for both classifiers
\*   {jusik}         no candidate; a keyword of the Orchestrator's
\*                   classifier that the agent system's classifier lacks
Feedbacks ==
    { {}, {"mok"}, {"undong"}, {"don"}, {"undong", "don"}, {"pibu"},
      {"tuja"}, {"jusik"} }

Categories == {"health", "finance", "skincare"}

\* ---------------------------------------------------------- classifiers

\* Mutant of SmartQuestSystem._determine_category: the finance keywords are
\* tried before the health keywords.
SmartQuestSystem_determine_category_FinanceFirst(content) ==
    IF content \cap FinanceKeywords # {} THEN "finance"
    ELSE IF content \cap HealthKeywords # {} THEN "health"
    ELSE IF content \cap SkincareKeywords # {} THEN "skincare"
    ELSE "health"

SmartQuestSystem_determine_category(content) ==
    IF content \cap HealthKeywords # {} THEN "health"
    ELSE IF content \cap FinanceKeywords # {} THEN "finance"
    ELSE IF content \cap SkincareKeywords # {} THEN "skincare"
    ELSE "health"

StrandsAgentSystem_determine_category(content) ==
    IF content \cap (HealthKeywords \ {"mom"}) # {} THEN "health"
    ELSE IF content \cap (FinanceKeywords \ {"jusik", "peondeu"}) # {}
         THEN "finance"
    ELSE IF content \cap {"pibu", "seukinkeeo", "hwajangpum", "yeodeureum"} # {}
         THEN "skincare"
    ELSE "health"

\* --------------------------------------------------------------- quests

\* A Quest: its title and estimated time identify its template entry;
\* difficulty is "easy" | "medium" | "hard" for the source's three levels.
health_quests ==
    << [title |-> "morning_neck_wakeup", estimated_time |-> 3,
        difficulty |-> "easy"],
       [title |-> "neck_rest_at_work", estimated_time |-> 5,
        difficulty |-> "medium"],
       [title |-> "evening_neck_relaxation", estimated_time |-> 10,
        difficulty |-> "hard"] >>

finance_quests ==
    << [title |-> "start_household_ledger", estimated_time |-> 5,
        difficulty |-> "easy"],
       [title |-> "budget_50_30_20", estimated_time |-> 30,
        difficulty |-> "medium"],
       [title |-> "build_emergency_fund", estimated_time |-> 15,
        difficulty |-> "hard"] >>

skincare_quests ==
    << [title |-> "basic_cleansing_routine", estimated_time |-> 3,
        difficulty |-> "easy"],
       [title |-> "introduce_salicylic_acid", estimated_time |-> 5,
        difficulty |-> "medium"],
       [title |-> "full_acne_routine", estimated_time |-> 10,
        difficulty |-> "hard"] >>

default_quests ==
    << [title |-> "basic_practice", estimated_time |-> 5,
        difficulty |-> "easy"] >>

\* Mutant of _generate_mock_quests: quest_templates.get(category, []), no
\* generic quest.
RAGQuestGenerator_generate_mock_quests_NoDefault(category) ==
    CASE category = "health" -> health_quests
      [] category = "finance" -> finance_quests
      [] category = "skincare" -> skincare_quests
      [] OTHER -> << >>

RAGQuestGenerator_generate_mock_quests(category) ==
    CASE category = "health" -> health_quests
      [] category = "finance" -> finance_quests
      [] category = "skincare" -> skincare_quests
      [] OTHER -> default_quests

\* Mutant of generate_from_documents: the primary document is documents[-1].
RAGQuestGenerator_generate_from_documents_LastDocument(documents) ==
    IF documents = << >>
    THEN [quests |-> << >>]
    ELSE [quests |-> RAGQuestGenerator_generate_mock_quests(
                         documents[Len(documents)].topic)]

\* documents: a sequence of ExpertDocument records.
RAGQuestGenerator_generate_from_documents(documents) ==
    IF documents = << >>
    THEN [quests |-> << >>]
    ELSE [quests |-> RAGQuestGenerator_generate_mock_quests(documents[1].topic)]

\* Mutant of _create_fallback_quest: the category comes from the agent
\* system's classifier.
SmartQuestSystem_create_fallback_quest_AgentCategory(content) ==
    << [title |-> "basic_practice_of",
        category |-> StrandsAgentSystem_determine_category(content),
        estimated_time |-> 10,
        difficulty |-> "easy"] >>

\* The fallback quest's title and action interpolate the category.
SmartQuestSystem_create_fallback_quest(content) ==
    << [title |-> "basic_practice_of",
        category |-> SmartQuestSystem_determine_category(content),
        estimated_time |-> 10,
        difficulty |-> "easy"] >>

\* ------------------------------------------------- similarity function

\* OpenSearchClient._calculate_mock_similarity: the first rule of the chain
\* whose keyword occurs in the query and in the content decides.
OpenSearchClient_calculate_mock_similarity(query, content) ==
    IF "mok" \in query /\ "mok" \in content THEN 90
    ELSE IF "tongjeung" \in query /\ "tongjeung" \in content THEN 85
    ELSE IF "undong" \in query
            /\ ("undong" \in content \/ "seuteureching" \in content) THEN 80
    ELSE IF "yesan" \in query /\ "yesan" \in content THEN 90
    ELSE IF "don" \in query
            /\ ("yesan" \in content \/ "jaejeong" \in content) THEN 85
    ELSE IF "pibu" \in query /\ "pibu" \in content THEN 90
    ELSE IF "yeodeureum" \in query /\ "yeodeureum" \in content THEN 95
    ELSE 30

\* ------------------------------------------------------------ metadata

\* dict.get(key, default)
MetadataGet(metadata, key, default) ==
    IF key \in DOMAIN metadata THEN metadata[key] ELSE default

\* doc.metadata['similarity_score'] = similarity
WithSimilarityScore(metadata, similarity) ==
    [k \in DOMAIN metadata \cup {"similarity_score"} |->
        IF k = "similarity_score" THEN similarity ELSE metadata[k]]

\* ------------------------------------------------------ the seeded index

\* An ExpertDocument is an object: oid is its identity (its metadata dict is
\* shared by every holder of the object).  A document_id is
\* <category>_<suffix>; stamp models the suffix: the creation time in
\* seconds of an authored document, a negative number for the three fixed
\* suffixes neck_001, budget_001 and acne_001 of the seeded corpus.
OpenSearchClient_initialize_mock_data ==
    << [oid |-> 1,
        document_id |-> [category |-> "health", stamp |-> -1],
        topic |-> "health",
        content |-> {"mok", "tongjeung", "seuteureching"},
        metadata |-> [experts |-> <<"physiotherapist", "trainer">>,
                      quality_score |-> 95],
        quality_score |-> 95],
       [oid |-> 2,
        document_id |-> [category |-> "finance", stamp |-> -2],
        topic |-> "finance",
        content |-> {"yesan", "jeochuk", "jaejeong"},
        metadata |-> [experts |-> <<"financial_expert", "investment_consultant">>,
                      quality_score |-> 92],
        quality_score |-> 92],
       [oid |-> 3,
        document_id |-> [category |-> "skincare", stamp |-> -3],
        topic |-> "skincare",
        content |-> {"pibu", "hwajangpum", "sean", "yeodeureum"},
        metadata |-> [experts |-> <<"dermatologist", "cosmetics_researcher">>,
                      quality_score |-> 93],
        quality_score |-> 93] >>

\* ------------------------------------------------------- trusted sources

mock_sources(category) ==
    CASE category = "health" ->
           << [title |-> "nih_neck_pain_relief", confidence |-> "VERY_HIGH"],
              [title |-> "mayo_cervical_pain", confidence |-> "HIGH"] >>
      [] category = "finance" ->
           << [title |-> "federal_reserve_budget", confidence |-> "VERY_HIGH"],
              [title |-> "sec_young_adult", confidence |-> "HIGH"] >>
      [] category = "skincare" ->
           << [title |-> "fda_acne_treatment", confidence |-> "VERY_HIGH"],
              [title |-> "aad_dermatological_care", confidence |-> "HIGH"] >>
      [] OTHER -> << >>

KendraClient_search_trusted_sources(query, category) == mock_sources(category)

\* ------------------------------------------------------------ synthesis

\* The keywords of the authored body: the template's fixed text holds none
\* of the keywords, the source summaries are English, and the feedback text
\* is embedded on a line of its own.
StrandsAgentSystem_generate_mock_expert_content(content, trusted, category) ==
    content

\* The ExpertDocument create_expert_document builds at time `time`, as
\* object `oid`.
StrandsAgentSystem_create_expert_document(content, trusted, time, oid) ==
    LET category == StrandsAgentSystem_determine_category(content)
    IN  [oid |-> oid,
         document_id |-> [category |-> category, stamp |-> time],
         topic |-> category,
         content |->
             StrandsAgentSystem_generate_mock_expert_content(content, trusted, category),
         metadata |-> [user_request |-> content,
                       trusted_sources_count |-> Len(trusted),
                       expert_collaboration |-> TRUE,
                       generated_by |-> "mock_strands_agent"],
         quality_score |-> NewQualityScore]

\* -------------------------------------------------------------- the gate

\* Mutant of _evaluate_similarity: `>` for `>=` at the high threshold.
SmartQuestSystem_evaluate_similarity_StrictHigh(metadatas) ==
    IF metadatas = << >> THEN FALSE
    ELSE LET similarity_score == MetadataGet(metadatas[1], "similarity_score", 0)
         IN  IF similarity_score > HighSimilarity THEN TRUE
             ELSE IF similarity_score >= MediumSimilarity
                  THEN Len(metadatas) >= 2
             ELSE FALSE

\* Mutant of _evaluate_similarity: `>` for `>=` at the medium threshold.
SmartQuestSystem_evaluate_similarity_StrictMedium(metadatas) ==
    IF metadatas = << >> THEN FALSE
    ELSE LET similarity_score == MetadataGet(metadatas[1], "similarity_score", 0)
         IN  IF similarity_score >= HighSimilarity THEN TRUE
             ELSE IF similarity_score > MediumSimilarity
                  THEN Len(metadatas) >= 2
             ELSE FALSE

\* Mutant of _evaluate_similarity: the check for an empty list is missing
\* its `not`.
SmartQuestSystem_evaluate_similarity_EmptyReuses(metadatas) ==
    IF metadatas = << >> THEN TRUE
    ELSE LET similarity_score == MetadataGet(metadatas[1], "similarity_score", 0)
         IN  IF similarity_score >= HighSimilarity THEN TRUE
             ELSE IF similarity_score >= MediumSimilarity
                  THEN Len(metadatas) >= 2
             ELSE FALSE

\* SmartQuestSystem._evaluate_similarity.  metadatas[i] is the metadata of
\* the i-th candidate.
SmartQuestSystem_evaluate_similarity(metadatas) ==
    IF metadatas = << >> THEN FALSE
    ELSE LET similarity_score == MetadataGet(metadatas[1], "similarity_score", 0)
         IN  IF similarity_score >= HighSimilarity THEN TRUE
             ELSE IF similarity_score >= MediumSimilarity
                  THEN Len(metadatas) >= 2
             ELSE FALSE

\* --------------------------------------------------------------- state

\* Request slots.  Requests of the main specification run one at a time, in
\* slot 1.
Procs == {1, 2}

VARIABLES
    system_ready,     \* SmartQuestSystem.system_ready
    now,              \* the wall clock, in seconds
    requests,         \* calls of process_user_feedback made so far
    objects,          \* ExpertDocument objects created so far
    mock_documents,   \* OpenSearchClient.mock_documents: a list of objects
    mock_storage,     \* DynamoDBClient.mock_storage: document_id -> record
    pc,               \* per request: the stage it is about to run
    feedback,         \* per request: feedback.content
    similar_docs,     \* per request: positions in mock_documents
    sufficient_match, \* per request: "unset" | "REUSE" (True) | "SYNTHESIZE" (False)
    trusted_sources,  \* per request: the retrieved excerpts
    expert_document,  \* per request: the authored object
    document_id,      \* per request: the identifier save returned
    result,           \* per request: the returned dict
    gate_docs,        \* the gate on its own: its candidates' metadata
    gate_result,      \* the gate on its own: "unset" | "REUSE" | "SYNTHESIZE"
    call,             \* a component called on its own: the function and its arguments
    returned,         \* a component called on its own: its return value
    quest_index,      \* the quest agents: the OpenSearch index quest-knowledge
    today,            \* the quest agents: the day of the wall clock
    agent_calls,      \* the quest agents: requests made so far
    effects,          \* the quest agents: service calls of the current request
    handler,          \* the entry point serving the current event, and its position
    service           \* bedrock_service: the BedrockService instance

sqs_vars ==
    <<system_ready, now, requests, objects, mock_documents, mock_storage, pc,
      feedback, similar_docs, sufficient_match, trusted_sources,
      expert_document, document_id, result>>

gate_vars == <<gate_docs, gate_result>>

call_vars == <<call, returned>>

outer_vars == <<handler, service>>

agent_vars == <<quest_index, today, agent_calls, effects, outer_vars>>

pure_vars == <<gate_vars, call_vars, agent_vars>>

vars == <<sqs_vars, pure_vars>>

NoDocument == [oid |-> 0]
NoDocumentId == [category |-> "none", stamp |-> 0]
NoResult == [pending |-> TRUE]
NoCall == [fn |-> "none"]
NoEffects ==
    [kb |-> 0, bedrock |-> 0, writes |-> 0, creates |-> 0, invokes |-> 0]
\* BedrockService before its constructor ran.
NoService == [constructed |-> FALSE, model_id |-> 0, probes |-> << >>]

Decision(match) == IF match THEN "REUSE" ELSE "SYNTHESIZE"

\* ------------------------------------------------------ initial states

\* The state after SmartQuestSystem(): _initialize_components sets
\* system_ready to True, or to False in its except branch; the index holds
\* the seeded corpus and the store is empty.
SqsInit(ready) ==
    /\ system_ready = ready
    /\ now = 0
    /\ requests = 0
    /\ objects = Len(OpenSearchClient_initialize_mock_data)
    /\ mock_documents = OpenSearchClient_initialize_mock_data
    /\ mock_storage = << >>
    /\ pc = [p \in Procs |-> "idle"]
    /\ feedback = [p \in Procs |-> {}]
    /\ similar_docs = [p \in Procs |-> << >>]
    /\ sufficient_match = [p \in Procs |-> "unset"]
    /\ trusted_sources = [p \in Procs |-> << >>]
    /\ expert_document = [p \in Procs |-> NoDocument]
    /\ document_id = [p \in Procs |-> NoDocumentId]
    /\ result = [p \in Procs |-> NoResult]

GateIdle ==
    /\ gate_docs = << >>
    /\ gate_result = "unset"

CallIdle ==
    /\ call = NoCall
    /\ returned = NoResult

\* The quest agents at rest: the index does not exist yet.
AgentIdle ==
    /\ quest_index = [exists |-> FALSE, docs |-> {}, auto_ids |-> 0]
    /\ today = 0
    /\ agent_calls = 0
    /\ effects = NoEffects
    /\ handler = NoCall
    /\ service = NoService

Init ==
    /\ \E ready \in BOOLEAN : SqsInit(ready)
    /\ GateIdle
    /\ CallIdle
    /\ AgentIdle

\* ---------------------------------------------------------------- search

Min(a, b) == IF a <= b THEN a ELSE b

Take(s, n) == SubSeq(s, 1, Min(n, Len(s)))

\* Mutant of find_similar_documents: reverse=True is missing, the sort is
\* by increasing score.
RECURSIVE SortByScore_Ascending(_, _)
SortByScore_Ascending(S, score) ==
    IF S = {} THEN << >>
    ELSE LET first == CHOOSE i \in S : \A j \in S :
                          \/ score[i] < score[j]
                          \/ score[i] = score[j] /\ i <= j
         IN  <<first>> \o SortByScore_Ascending(S \ {first}, score)

\* list.sort(key=score, reverse=True) of the positions S: by decreasing
\* score, positions of equal score in their original order (the sort is
\* stable).
RECURSIVE SortByScore(_, _)
SortByScore(S, score) ==
    IF S = {} THEN << >>
    ELSE LET first == CHOOSE i \in S : \A j \in S :
                          \/ score[i] > score[j]
                          \/ score[i] = score[j] /\ i <= j
         IN  <<first>> \o SortByScore(S \ {first}, score)

Similarities(query, documents) ==
    [i \in 1..Len(documents) |->
        OpenSearchClient_calculate_mock_similarity(query, documents[i].content)]

\* Mutant of find_similar_documents: the `similarity >= threshold` test is
\* missing, every document is a hit.
Hits_NoThreshold(query, threshold, documents) ==
    1..Len(documents)

Hits(query, threshold, documents) ==
    {i \in 1..Len(documents) : Similarities(query, documents)[i] >= threshold}

\* Mutant of find_similar_documents: results.sort is missing, the hits come
\* back in index order.
OpenSearchClient_find_similar_documents_Unsorted(query, threshold, limit, documents) ==
    Take(SortByScore(Hits(query, threshold, documents),
                     [i \in 1..Len(documents) |-> 0]), limit)

\* OpenSearchClient.find_similar_documents, its return value: the positions
\* of the returned objects, best first, cut to limit.
OpenSearchClient_find_similar_documents(query, threshold, limit, documents) ==
    Take(SortByScore(Hits(query, threshold, documents),
                     Similarities(query, documents)), limit)

\* Mutant of find_similar_documents: a score already in the metadata is
\* kept (setdefault instead of assignment).
ScoredDocuments_KeepsScore(query, threshold, documents) ==
    [i \in 1..Len(documents) |->
        IF /\ i \in Hits(query, threshold, documents)
           /\ "similarity_score" \notin DOMAIN documents[i].metadata
        THEN [documents[i] EXCEPT !.metadata =
                 WithSimilarityScore(@, Similarities(query, documents)[i])]
        ELSE documents[i]]

\* OpenSearchClient.find_similar_documents, its effect on the index: every
\* hit's metadata gets the score.
ScoredDocuments(query, threshold, documents) ==
    [i \in 1..Len(documents) |->
        IF i \in Hits(query, threshold, documents)
        THEN [documents[i] EXCEPT !.metadata =
                 WithSimilarityScore(@, Similarities(query, documents)[i])]
        ELSE documents[i]]

\* The same effect seen through the store: a stored record holds the
\* metadata dict of the object it was saved from, not a copy.
ScoredStorage(query, threshold, documents, storage) ==
    [id \in DOMAIN storage |->
        LET hit == {i \in Hits(query, threshold, documents) :
                        documents[i].oid = storage[id].oid}
        IN  IF hit = {} THEN storage[id]
            ELSE [storage[id] EXCEPT !.metadata =
                     WithSimilarityScore(@,
                         Similarities(query, documents)[CHOOSE i \in hit : TRUE])]]

\* DynamoDBClient.save_expert_document: mock_storage[document_id] = {...}
DynamoDBClient_save_expert_document(storage, document) ==
    [id \in DOMAIN storage \cup {document.document_id} |->
        IF id = document.document_id
        THEN [topic |-> document.topic,
              document_id |-> document.document_id,
              content |-> document.content,
              metadata |-> document.metadata,
              quality_score |-> document.quality_score,
              oid |-> document.oid]
        ELSE storage[id]]

\* OpenSearchClient.index_document: mock_documents.append(document)
OpenSearchClient_index_document(documents, document) ==
    Append(documents, document)

\* -------------------------------------------------------------- results

\* process_user_feedback's early return when the system is not ready.
NotReadyResult ==
    [success |-> FALSE, error |-> "system_not_ready"]

\* The dict both except blocks return; error is str(e).
FallbackResult(error, content) ==
    [success |-> FALSE,
     error |-> error,
     fallback_quest |-> SmartQuestSystem_create_fallback_quest(content)]

\* Mutant of _generate_quest_from_existing's return value: it is tagged as
\* the other success result is.
ExistingDocumentsResult_TaggedNew(positions, documents, quests, time) ==
    [success |-> TRUE,
     method |-> "new_expert_document",
     documents_used |-> Len(positions),
     quests |-> quests,
     metadata |->
        [processing_time |-> time,
         similarity_scores |->
            [i \in 1..Len(positions) |->
                MetadataGet(documents[positions[i]].metadata,
                            "similarity_score", 0)]]]

\* _generate_quest_from_existing's return value; the similarity scores are
\* read from the documents' metadata when the dict is built.
ExistingDocumentsResult(positions, documents, quests, time) ==
    [success |-> TRUE,
     method |-> "existing_documents",
     documents_used |-> Len(positions),
     quests |-> quests,
     metadata |->
        [processing_time |-> time,
         similarity_scores |->
            [i \in 1..Len(positions) |->
                MetadataGet(documents[positions[i]].metadata,
                            "similarity_score", 0)]]]

\* Mutant of _create_new_expert_document_and_quest's return value: the
\* count reported is that of a category's mock corpus, not len(trusted_sources).
NewExpertDocumentResult_FixedCount(id, document, quests, trusted, time) ==
    [success |-> TRUE,
     method |-> "new_expert_document",
     document_id |-> id,
     expert_document |-> document.oid,
     quests |-> quests,
     metadata |->
        [processing_time |-> time,
         trusted_sources_count |-> 2,
         expert_collaboration |-> TRUE]]

\* _create_new_expert_document_and_quest's return value; expert_document
\* is the object, given by its oid.
NewExpertDocumentResult(id, document, quests, trusted, time) ==
    [success |-> TRUE,
     method |-> "new_expert_document",
     document_id |-> id,
     expert_document |-> document.oid,
     quests |-> quests,
     metadata |->
        [processing_time |-> time,
         trusted_sources_count |-> Len(trusted),
         expert_collaboration |-> TRUE]]

\* ------------------------------------------------------- except blocks

\* Mutant of process_user_feedback's except block: the exception is raised
\* again instead of being turned into a result.
ProcessUserFeedbackExcept_Reraises(p, error) ==
    /\ pc' = [pc EXCEPT ![p] = "raised"]
    /\ UNCHANGED result

\* process_user_feedback's `except Exception as e`: return the fallback.
ProcessUserFeedbackExcept(p, error) ==
    /\ pc' = [pc EXCEPT ![p] = "done"]
    /\ result' = [result EXCEPT ![p] = FallbackResult(error, feedback[p])]

\* Mutant of _create_new_expert_document_and_quest's except block: it
\* returns the error alone, as the not-ready return does.
CreateNewExcept_NoFallback(p, error) ==
    /\ pc' = [pc EXCEPT ![p] = "done"]
    /\ result' = [result EXCEPT ![p] = [success |-> FALSE, error |-> error]]

\* _create_new_expert_document_and_quest's `except Exception as e`.
CreateNewExcept(p, error) ==
    /\ pc' = [pc EXCEPT ![p] = "done"]
    /\ result' = [result EXCEPT ![p] = FallbackResult(error, feedback[p])]

\* --------------------------------------------------------------- actions

\* The clock advances.
Tick ==
    /\ now < MaxTime
    /\ now' = now + 1
    /\ UNCHANGED <<system_ready, requests, objects, mock_documents,
                   mock_storage, pc, feedback, similar_docs, sufficient_match,
                   trusted_sources, expert_document, document_id, result,
                   pure_vars>>

\* process_user_feedback(feedback) is called: the system_ready check.
Call(p, content) ==
    /\ pc[p] = "idle"
    /\ requests < MaxRequests
    /\ requests' = requests + 1
    /\ feedback' = [feedback EXCEPT ![p] = content]
    /\ IF system_ready
       THEN /\ pc' = [pc EXCEPT ![p] = "search"]
            /\ UNCHANGED result
       ELSE /\ pc' = [pc EXCEPT ![p] = "done"]
            /\ result' = [result EXCEPT ![p] = NotReadyResult]
    /\ UNCHANGED <<system_ready, now, objects, mock_documents, mock_storage,
                   similar_docs, sufficient_match, trusted_sources,
                   expert_document, document_id, pure_vars>>

\* Stage 1 and 2: find_similar_documents, then _evaluate_similarity and the
\* branch on it.  A failure of the search reaches process_user_feedback's
\* own except block.
Search(p, ok) ==
    /\ pc[p] = "search"
    /\ IF ok
       THEN LET found == OpenSearchClient_find_similar_documents(
                             feedback[p], SearchThreshold, SearchLimit,
                             mock_documents)
                scored == ScoredDocuments(feedback[p], SearchThreshold,
                                          mock_documents)
                match == SmartQuestSystem_evaluate_similarity(
                             [i \in 1..Len(found) |-> scored[found[i]].metadata])
            IN  /\ mock_documents' = scored
                /\ mock_storage' = ScoredStorage(feedback[p], SearchThreshold,
                                                 mock_documents, mock_storage)
                /\ similar_docs' = [similar_docs EXCEPT ![p] = found]
                /\ sufficient_match' =
                       [sufficient_match EXCEPT ![p] = Decision(match)]
                /\ pc' = [pc EXCEPT ![p] = IF match THEN "reuse" ELSE "kendra"]
                /\ UNCHANGED result
       ELSE /\ ProcessUserFeedbackExcept(p, "search_failed")
            /\ UNCHANGED <<mock_documents, mock_storage, similar_docs,
                           sufficient_match>>
    /\ UNCHANGED <<system_ready, now, requests, objects, feedback,
                   trusted_sources, expert_document, document_id, pure_vars>>

\* _generate_quest_from_existing: quests from the found documents; its
\* except block falls back to authoring a new document.
GenerateFromExisting(p, ok) ==
    /\ pc[p] = "reuse"
    /\ IF ok
       THEN LET generated == RAGQuestGenerator_generate_from_documents(
                                 [i \in 1..Len(similar_docs[p]) |->
                                     mock_documents[similar_docs[p][i]]])
            IN  /\ result' = [result EXCEPT ![p] =
                       ExistingDocumentsResult(similar_docs[p], mock_documents,
                                               generated.quests, now)]
                /\ pc' = [pc EXCEPT ![p] = "done"]
       ELSE /\ pc' = [pc EXCEPT ![p] = "kendra"]
            /\ UNCHANGED result
    /\ UNCHANGED <<system_ready, now, requests, objects, mock_documents,
                   mock_storage, feedback, similar_docs, sufficient_match,
                   trusted_sources, expert_document, document_id, pure_vars>>

\* Mutant of _create_new_expert_document_and_quest: a failure of the
\* trusted-source search is swallowed and the path goes on without sources.
SearchTrustedSources_SwallowsFailure(p, ok) ==
    /\ pc[p] = "kendra"
    /\ trusted_sources' = [trusted_sources EXCEPT ![p] =
           IF ok
           THEN KendraClient_search_trusted_sources(feedback[p],
                    SmartQuestSystem_determine_category(feedback[p]))
           ELSE << >>]
    /\ pc' = [pc EXCEPT ![p] = "agent"]
    /\ UNCHANGED result
    /\ UNCHANGED <<system_ready, now, requests, objects, mock_documents,
                   mock_storage, feedback, similar_docs, sufficient_match,
                   expert_document, document_id, pure_vars>>

\* _create_new_expert_document_and_quest, step 1: trusted sources for the
\* Orchestrator's category.
SearchTrustedSources(p, ok) ==
    /\ pc[p] = "kendra"
    /\ IF ok
       THEN /\ trusted_sources' = [trusted_sources EXCEPT ![p] =
                   KendraClient_search_trusted_sources(feedback[p],
                       SmartQuestSystem_determine_category(feedback[p]))]
            /\ pc' = [pc EXCEPT ![p] = "agent"]
            /\ UNCHANGED result
       ELSE /\ CreateNewExcept(p, "kendra_failed")
            /\ UNCHANGED trusted_sources
    /\ UNCHANGED <<system_ready, now, requests, objects, mock_documents,
                   mock_storage, feedback, similar_docs, sufficient_match,
                   expert_document, document_id, pure_vars>>

\* Mutant of _create_new_expert_document_and_quest: the save step is left
\* out, the authored document goes to the index at once.
CreateExpertDocument_SkipsSave(p, ok) ==
    /\ pc[p] = "agent"
    /\ IF ok
       THEN /\ objects' = objects + 1
            /\ expert_document' = [expert_document EXCEPT ![p] =
                   StrandsAgentSystem_create_expert_document(
                       feedback[p], trusted_sources[p], now, objects + 1)]
            /\ pc' = [pc EXCEPT ![p] = "index"]
            /\ UNCHANGED result
       ELSE /\ CreateNewExcept(p, "agent_failed")
            /\ UNCHANGED <<objects, expert_document>>
    /\ UNCHANGED <<system_ready, now, requests, mock_documents, mock_storage,
                   feedback, similar_docs, sufficient_match, trusted_sources,
                   document_id, pure_vars>>

\* Step 2: the agent system authors a document, named by its category and
\* the current second.
CreateExpertDocument(p, ok) ==
    /\ pc[p] = "agent"
    /\ IF ok
       THEN /\ objects' = objects + 1
            /\ expert_document' = [expert_document EXCEPT ![p] =
                   StrandsAgentSystem_create_expert_document(
                       feedback[p], trusted_sources[p], now, objects + 1)]
            /\ pc' = [pc EXCEPT ![p] = "save"]
            /\ UNCHANGED result
       ELSE /\ CreateNewExcept(p, "agent_failed")
            /\ UNCHANGED <<objects, expert_document>>
    /\ UNCHANGED <<system_ready, now, requests, mock_documents, mock_storage,
                   feedback, similar_docs, sufficient_match, trusted_sources,
                   document_id, pure_vars>>

\* Step 3: the document is saved under its document_id.
SaveExpertDocument(p, ok) ==
    /\ pc[p] = "save"
    /\ IF ok
       THEN /\ mock_storage' = DynamoDBClient_save_expert_document(
                                   mock_storage, expert_document[p])
            /\ document_id' = [document_id EXCEPT ![p] =
                                   expert_document[p].document_id]
            /\ pc' = [pc EXCEPT ![p] = "index"]
            /\ UNCHANGED result
       ELSE /\ CreateNewExcept(p, "save_failed")
            /\ UNCHANGED <<mock_storage, document_id>>
    /\ UNCHANGED <<system_ready, now, requests, objects, mock_documents,
                   feedback, similar_docs, sufficient_match, trusted_sources,
                   expert_document, pure_vars>>

\* Step 4: the document is added to the index.
IndexDocument(p, ok) ==
    /\ pc[p] = "index"
    /\ IF ok
       THEN /\ mock_documents' = OpenSearchClient_index_document(
                                     mock_documents, expert_document[p])
            /\ pc' = [pc EXCEPT ![p] = "generate"]
            /\ UNCHANGED result
       ELSE /\ CreateNewExcept(p, "index_failed")
            /\ UNCHANGED mock_documents
    /\ UNCHANGED <<system_ready, now, requests, objects, mock_storage,
                   feedback, similar_docs, sufficient_match, trusted_sources,
                   expert_document, document_id, pure_vars>>

\* Step 5: quests from the new document, and the result.
GenerateFromNew(p, ok) ==
    /\ pc[p] = "generate"
    /\ IF ok
       THEN LET generated == RAGQuestGenerator_generate_from_documents(
                                 <<expert_document[p]>>)
            IN  /\ result' = [result EXCEPT ![p] =
                       NewExpertDocumentResult(document_id[p],
                           expert_document[p], generated.quests,
                           trusted_sources[p], now)]
                /\ pc' = [pc EXCEPT ![p] = "done"]
       ELSE CreateNewExcept(p, "generate_failed")
    /\ UNCHANGED <<system_ready, now, requests, objects, mock_documents,
                   mock_storage, feedback, similar_docs, sufficient_match,
                   trusted_sources, expert_document, document_id, pure_vars>>

\* The caller has the result; the request's locals are gone.
Return(p) ==
    /\ pc[p] = "done"
    /\ pc' = [pc EXCEPT ![p] = "idle"]
    /\ feedback' = [feedback EXCEPT ![p] = {}]
    /\ similar_docs' = [similar_docs EXCEPT ![p] = << >>]
    /\ sufficient_match' = [sufficient_match EXCEPT ![p] = "unset"]
    /\ trusted_sources' = [trusted_sources EXCEPT ![p] = << >>]
    /\ expert_document' = [expert_document EXCEPT ![p] = NoDocument]
    /\ document_id' = [document_id EXCEPT ![p] = NoDocumentId]
    /\ result' = [result EXCEPT ![p] = NoResult]
    /\ UNCHANGED <<system_ready, now, requests, objects, mock_documents,
                   mock_storage, pure_vars>>

\* One request at a time, as main()'s loop makes them.
Next ==
    \/ Tick
    \/ \E content \in Feedbacks : Call(1, content)
    \/ \E ok \in BOOLEAN : Search(1, ok)
    \/ \E ok \in BOOLEAN : GenerateFromExisting(1, ok)
    \/ \E ok \in BOOLEAN : SearchTrustedSources(1, ok)
    \/ \E ok \in BOOLEAN : CreateExpertDocument(1, ok)
    \/ \E ok \in BOOLEAN : SaveExpertDocument(1, ok)
    \/ \E ok \in BOOLEAN : IndexDocument(1, ok)
    \/ \E ok \in BOOLEAN : GenerateFromNew(1, ok)
    \/ Return(1)

Spec == Init /\ [][Next]_vars

\* ------------------------------------------------ the gate on its own

\* The metadata a candidate handed to _evaluate_similarity may carry: no
\* similarity_score at all, or one of these scores (both boundaries, their
\* neighbours and the ends of the range).
GateScores == {0, 30, 69, 70, 84, 85, 86, 100}

GateMetadata ==
    {[quality_score |-> NewQualityScore]}
    \cup {[quality_score |-> NewQualityScore, similarity_score |-> s] :
             s \in GateScores}

GateScore(metadata) == MetadataGet(metadata, "similarity_score", 0)

\* Candidate lists as find_similar_documents returns them: best first.
GateInputs ==
    UNION {{docs \in [1..n -> GateMetadata] :
               \A i \in 1..n : \A j \in i..n :
                   GateScore(docs[i]) >= GateScore(docs[j])} : n \in 0..MaxCands}

\* _evaluate_similarity(docs, feedback) is called.
GateCall(docs) ==
    /\ gate_result = "unset"
    /\ gate_docs' = docs
    /\ gate_result' = Decision(SmartQuestSystem_evaluate_similarity(docs))
    /\ UNCHANGED <<sqs_vars, call_vars, agent_vars>>

\* Its caller has the answer.
GateReturn ==
    /\ gate_result # "unset"
    /\ gate_docs' = << >>
    /\ gate_result' = "unset"
    /\ UNCHANGED <<sqs_vars, call_vars, agent_vars>>

GateInit ==
    /\ SqsInit(TRUE)
    /\ GateIdle
    /\ CallIdle
    /\ AgentIdle

GateNext ==
    \/ \E docs \in GateInputs : GateCall(docs)
    \/ GateReturn

GateSpec == GateInit /\ [][GateNext]_vars

\* ================================================================ claims

\* The largest similarity score among the gate's candidates.
GateTopScore ==
    CHOOSE s \in {GateScore(gate_docs[i]) : i \in 1..Len(gate_docs)} :
        \A i \in 1..Len(gate_docs) : s >= GateScore(gate_docs[i])

\* The identifiers a search can return.
IndexedIds ==
    {mock_documents[i].document_id : i \in 1..Len(mock_documents)}

\* The quests a result carries: its quest set, else its fallback quest set.
QuestCount(r) ==
    IF "quests" \in DOMAIN r THEN Len(r.quests)
    ELSE IF "fallback_quest" \in DOMAIN r THEN Len(r.fallback_quest)
    ELSE 0

\* Stages of a request still to run, at most, from each stage.
Rank(stage) ==
    CASE stage = "search" -> 7
      [] stage = "reuse" -> 6
      [] stage = "kendra" -> 5
      [] stage = "agent" -> 4
      [] stage = "save" -> 3
      [] stage = "index" -> 2
      [] stage = "generate" -> 1
      [] OTHER -> 0

Running(p) == pc[p] \notin {"idle", "done", "raised"}

Step(p) ==
    \E ok \in BOOLEAN :
        \/ Search(p, ok)
        \/ GenerateFromExisting(p, ok)
        \/ SearchTrustedSources(p, ok)
        \/ CreateExpertDocument(p, ok)
        \/ SaveExpertDocument(p, ok)
        \/ IndexDocument(p, ok)
        \/ GenerateFromNew(p, ok)

\* C1: process_user_feedback never raises to its caller.  Whatever stages
\* fail, no request ends with an exception; a request that has ended holds a
\* result object (a dict with a success flag); a request that has not ended
\* can always run its next stage, and every stage it runs brings it strictly
\* closer to its end (single pass, no loops).
C1_NeverRaises ==
    /\ [](\A p \in Procs :
            /\ pc[p] # "raised"
            /\ pc[p] = "done" => "success" \in DOMAIN result[p]
            /\ Running(p) => ENABLED Step(p))
    /\ [][\A p \in Procs :
            Running(p) /\ pc'[p] # pc[p] => Rank(pc'[p]) < Rank(pc[p])]_vars

\* C1 witness: a request whose search failed has returned a result.
C1_Witness ==
    /\ pc[1] = "done"
    /\ "error" \in DOMAIN result[1]
    /\ result[1].error = "search_failed"

\* C2: every result with success=false carries an error string and a
\* fallback quest set of exactly 1 quest, for every failure cause, the
\* components having failed to initialise included.
C2_FailureCarriesFallback ==
    \A p \in Procs :
        (pc[p] = "done" /\ ~result[p].success) =>
            /\ "error" \in DOMAIN result[p]
            /\ "fallback_quest" \in DOMAIN result[p]
            /\ Len(result[p].fallback_quest) = 1

\* C3: whenever the top similarity score of the candidates is >= 0.85 (0.85
\* included), the gate decides REUSE, whatever the number of candidates.
C3_HighScoreReuses ==
    (gate_result # "unset" /\ gate_docs # << >> /\ GateTopScore >= 85)
        => gate_result = "REUSE"

\* C3 witness: one candidate, scoring exactly 0.85, was reused.
C3_Witness ==
    /\ gate_result = "REUSE"
    /\ Len(gate_docs) = 1
    /\ GateTopScore = 85

\* C4: whenever the top similarity score lies in [0.70, 0.85), the gate
\* decides SYNTHESIZE for exactly one candidate and REUSE for two or more.
C4_MediumScoreNeedsSecond ==
    (gate_result # "unset" /\ gate_docs # << >>
        /\ GateTopScore >= 70 /\ GateTopScore < 85)
        => /\ Len(gate_docs) = 1 => gate_result = "SYNTHESIZE"
           /\ Len(gate_docs) >= 2 => gate_result = "REUSE"

\* C4 witness: two candidates, the best scoring exactly 0.70, were reused.
C4_Witness ==
    /\ gate_result = "REUSE"
    /\ Len(gate_docs) = 2
    /\ GateTopScore = 70

\* C5: a request whose search returned no candidates takes the synthesize
\* path, and no request is on the reuse path with an empty candidate list.
C5_NoCandidatesSynthesizes ==
    \A p \in Procs :
        /\ (sufficient_match[p] # "unset" /\ similar_docs[p] = << >>) =>
              /\ sufficient_match[p] = "SYNTHESIZE"
              /\ pc[p] \in {"kendra", "agent", "save", "index", "generate", "done"}
              /\ (pc[p] = "done" /\ result[p].success) =>
                     result[p].method = "new_expert_document"
        /\ pc[p] = "reuse" => similar_docs[p] # << >>

\* C5 witness: a request with no candidates has returned a synthesize
\* result.
C5_Witness ==
    /\ pc[1] = "done"
    /\ sufficient_match[1] = "SYNTHESIZE"
    /\ similar_docs[1] = << >>
    /\ result[1].success
    /\ result[1].method = "new_expert_document"

\* C6: whenever no request is in progress, the initial state included, a
\* document is searchable in the index if and only if it is persisted in
\* the store.
C6_IndexMatchesStore ==
    (\A p \in Procs : pc[p] = "idle") => IndexedIds = DOMAIN mock_storage

\* C7: a request that persisted its new document does not return leaving
\* that document unindexed, even when the indexing step failed.
C7_SavedIsIndexed ==
    \A p \in Procs :
        (pc[p] = "done" /\ document_id[p] # NoDocumentId) =>
            document_id[p] \in IndexedIds

\* C8: indexing a document of an identifier already indexed does not
\* duplicate: the index holds at most one entry for each identifier.
C8_OneEntryPerIdentifier ==
    \A i, j \in 1..Len(mock_documents) :
        mock_documents[i].document_id = mock_documents[j].document_id => i = j

\* C9: the identifier of a document about to be saved is distinct from
\* every identifier already persisted, so that save never overwrites.
C9_FreshIdentifier ==
    \A p \in Procs :
        pc[p] = "save" =>
            expert_document[p].document_id \notin DOMAIN mock_storage

\* C10: every result with success=true carries exactly 3 quests and every
\* other result exactly 1; no result carries 0, 2, or 4 or more quests.
C10_QuestCount ==
    \A p \in Procs :
        pc[p] = "done" =>
            QuestCount(result[p]) = (IF result[p].success THEN 3 ELSE 1)

\* A failure result with its error message and a single fallback quest.
IsFallbackResult(r) ==
    /\ "success" \in DOMAIN r
    /\ ~r.success
    /\ "error" \in DOMAIN r
    /\ "fallback_quest" \in DOMAIN r
    /\ Len(r.fallback_quest) = 1

\* C11 as claimed: a failure of quest generation on the reuse path ends the
\* request with a failure result, and no document is synthesized for a
\* request the gate decided to serve by reuse.
C11_ReuseFailureSynthesizesNothing ==
    \A p \in Procs :
        sufficient_match[p] = "REUSE" =>
            /\ expert_document[p] = NoDocument
            /\ pc[p] = "done" =>
                  \/ IsFallbackResult(result[p])
                  \/ result[p].method = "existing_documents"

\* C11 as amended: a failure of the search or of any stage of the
\* synthesize path ends the request with success=false, the error message
\* and a single fallback quest; a failure of quest generation on the reuse
\* path is caught, produces no result, and starts the synthesize path.
C11_FailuresFallBackExceptReuse ==
    [][\A p \in Procs :
          /\ (\/ Search(p, FALSE)
              \/ SearchTrustedSources(p, FALSE)
              \/ CreateExpertDocument(p, FALSE)
              \/ SaveExpertDocument(p, FALSE)
              \/ IndexDocument(p, FALSE)
              \/ GenerateFromNew(p, FALSE))
                 => pc'[p] = "done" /\ IsFallbackResult(result'[p])
          /\ GenerateFromExisting(p, FALSE)
                 => pc'[p] = "kendra" /\ result'[p] = NoResult]_vars

\* C11 witness: a request the gate decided to serve by reuse has returned a
\* newly synthesized document.
C11_Witness ==
    /\ pc[1] = "done"
    /\ sufficient_match[1] = "REUSE"
    /\ result[1].success
    /\ result[1].method = "new_expert_document"

\* The errors of the stages of the synthesize path.
SynthesizeErrors ==
    {"kendra_failed", "agent_failed", "save_failed", "index_failed",
     "generate_failed"}

\* C14: a request whose search returned no candidate at the 0.70 threshold
\* and that succeeded returns the identifier of a new document, and a
\* search with the same feedback text then returns that document with
\* score 1.0.
C14_SynthesizedIsFoundAgain ==
    \A p \in Procs :
        (/\ pc[p] = "done"
         /\ similar_docs[p] = << >>
         /\ "success" \in DOMAIN result[p]
         /\ result[p].success) =>
            /\ result[p].method = "new_expert_document"
            /\ result[p].document_id = expert_document[p].document_id
            /\ \E i \in 1..Len(OpenSearchClient_find_similar_documents(
                               feedback[p], SearchThreshold, SearchLimit,
                               mock_documents)) :
                  LET pos == OpenSearchClient_find_similar_documents(
                                 feedback[p], SearchThreshold, SearchLimit,
                                 mock_documents)[i]
                  IN  /\ mock_documents[pos].oid = expert_document[p].oid
                      /\ Similarities(feedback[p], mock_documents)[pos] = 100

\* C15: a request that failed in a stage of the synthesize path has
\* success=false and exactly one fallback quest, whose category is the
\* one SmartQuestSystem._determine_category gives for the feedback text.
C15_SynthesizeFailureFallback ==
    \A p \in Procs :
        (/\ pc[p] = "done"
         /\ "error" \in DOMAIN result[p]
         /\ result[p].error \in SynthesizeErrors) =>
            /\ ~result[p].success
            /\ "fallback_quest" \in DOMAIN result[p]
            /\ Len(result[p].fallback_quest) = 1
            /\ result[p].fallback_quest[1].category =
                   SmartQuestSystem_determine_category(feedback[p])

\* C15 witness: the trusted-source search failed for a text the two
\* classifiers would place in different categories.
C15_Witness ==
    /\ pc[1] = "done"
    /\ feedback[1] = {"jusik"}
    /\ "error" \in DOMAIN result[1]
    /\ result[1].error = "kendra_failed"
    /\ Len(result[1].fallback_quest) = 1

\* C17: the topic and the identifier prefix of a synthesized document are
\* the category SmartQuestSystem._determine_category gives for the feedback
\* text (the one the trusted sources were searched with).
C17_SynthesizerTagsClassifiedCategory ==
    \A p \in Procs :
        expert_document[p] # NoDocument =>
            /\ expert_document[p].topic =
                   SmartQuestSystem_determine_category(feedback[p])
            /\ expert_document[p].document_id.category =
                   SmartQuestSystem_determine_category(feedback[p])

\* ------------------------------------------- the index called on its own

\* The texts of the documents added to the index beside the seeded ones.
SearchContents == { {}, {"mok"}, {"undong"}, {"pibu", "yeodeureum"} }

\* The queries: the feedback texts and every body a document can have.
SearchQueries ==
    Feedbacks \cup SearchContents \cup
    {OpenSearchClient_initialize_mock_data[i].content :
        i \in 1..Len(OpenSearchClient_initialize_mock_data)}

\* Thresholds: both ends of [0,1], the pipeline's, and values between the
\* scores the similarity function returns.
SearchThresholds == {0, 31, SearchThreshold, 90, 100}

SearchLimits == {1, 2, SearchLimit}

\* A document is authored for a text, saved and indexed, as steps 2 to 4 of
\* _create_new_expert_document_and_quest do with the components.
SearchAddDocument(content) ==
    /\ call = NoCall
    /\ Len(mock_documents) < MaxIndexed
    /\ LET document == StrandsAgentSystem_create_expert_document(
                           content,
                           KendraClient_search_trusted_sources(content,
                               SmartQuestSystem_determine_category(content)),
                           now, objects + 1)
       IN  /\ objects' = objects + 1
           /\ mock_storage' =
                  DynamoDBClient_save_expert_document(mock_storage, document)
           /\ mock_documents' =
                  OpenSearchClient_index_document(mock_documents, document)
    /\ UNCHANGED <<system_ready, now, requests, pc, feedback, similar_docs,
                   sufficient_match, trusted_sources, expert_document,
                   document_id, result, pure_vars>>

\* find_similar_documents(query, threshold, limit) is called and returns.
SearchFind(query, threshold, limit) ==
    /\ call = NoCall
    /\ call' = [fn |-> "find_similar_documents", query |-> query,
                threshold |-> threshold, limit |-> limit]
    /\ returned' = [value |-> OpenSearchClient_find_similar_documents(
                                  query, threshold, limit, mock_documents)]
    /\ mock_documents' = ScoredDocuments(query, threshold, mock_documents)
    /\ mock_storage' =
           ScoredStorage(query, threshold, mock_documents, mock_storage)
    /\ UNCHANGED <<system_ready, now, requests, objects, pc, feedback,
                   similar_docs, sufficient_match, trusted_sources,
                   expert_document, document_id, result, gate_vars,
                   agent_vars>>

\* Its caller has the list.
SearchReturn ==
    /\ call # NoCall
    /\ call.fn = "find_similar_documents"
    /\ call' = NoCall
    /\ returned' = NoResult
    /\ UNCHANGED <<sqs_vars, gate_vars, agent_vars>>

SearchInit ==
    /\ SqsInit(TRUE)
    /\ GateIdle
    /\ CallIdle
    /\ AgentIdle

SearchNext ==
    \/ \E content \in SearchContents : SearchAddDocument(content)
    \/ \E query \in SearchQueries, threshold \in SearchThresholds,
          limit \in SearchLimits : SearchFind(query, threshold, limit)
    \/ SearchReturn

SearchSpec == SearchInit /\ [][SearchNext]_vars

\* A find_similar_documents call has returned.
Found == call.fn = "find_similar_documents"

\* The score the i-th returned document carries.
FoundScore(i) == mock_documents[returned.value[i]].metadata.similarity_score

\* C12: the list find_similar_documents returns is in non-increasing order
\* of score, has at most limit entries, holds only documents scoring at
\* least threshold with scores within [0,1], and no document scoring at
\* least threshold is left out while a lower-scoring one is returned.
C12_SearchContract ==
    Found =>
        /\ Len(returned.value) <= call.limit
        /\ \A i \in 1..Len(returned.value) :
              /\ FoundScore(i) >= call.threshold
              /\ FoundScore(i) \in 0..100
              /\ FoundScore(i) = OpenSearchClient_calculate_mock_similarity(
                     call.query, mock_documents[returned.value[i]].content)
        /\ \A i, j \in 1..Len(returned.value) :
              i < j => FoundScore(i) >= FoundScore(j)
        /\ \A k \in 1..Len(mock_documents) :
              (/\ Similarities(call.query, mock_documents)[k] >= call.threshold
               /\ \A i \in 1..Len(returned.value) : returned.value[i] # k)
              => \A i \in 1..Len(returned.value) :
                    FoundScore(i) >= Similarities(call.query, mock_documents)[k]

\* C12 witness: a search cut by its limit returned documents of different
\* scores and left a hit out.
C12_Witness ==
    /\ Found
    /\ Len(returned.value) = call.limit
    /\ Len(returned.value) >= 2
    /\ FoundScore(1) > FoundScore(Len(returned.value))
    /\ \E k \in 1..Len(mock_documents) :
          /\ Similarities(call.query, mock_documents)[k] >= call.threshold
          /\ \A i \in 1..Len(returned.value) : returned.value[i] # k

\* C13: after a document is saved and indexed, a search whose query is the
\* document's own body (and whose limit does not cut the list) returns the
\* document with score 1.0.
C13_OwnBodyScoresOne ==
    Found =>
        \A k \in 1..Len(mock_documents) :
            (/\ mock_documents[k].content = call.query
             /\ mock_documents[k].document_id \in DOMAIN mock_storage
             /\ mock_storage[mock_documents[k].document_id].oid =
                    mock_documents[k].oid
             /\ Len(mock_documents) <= call.limit)
            => \E i \in 1..Len(returned.value) :
                  /\ returned.value[i] = k
                  /\ FoundScore(i) = 100

\* --------------------------------------- the generator called on its own

\* Topics of the documents handed to the generator: the three template
\* keys, a key in another case, the empty string and a topic without template.
GenTopics == {"health", "finance", "skincare", "Health", "", "travel"}

RECURSIVE SeqsUpTo(_, _)
SeqsUpTo(S, n) ==
    IF n = 0 THEN {<< >>}
    ELSE SeqsUpTo(S, n - 1) \cup
         {Append(s, x) : s \in {t \in SeqsUpTo(S, n - 1) : Len(t) = n - 1},
                         x \in S}

\* The document lists: only the topic of a document is read.
GenInputs == SeqsUpTo({[topic |-> t] : t \in GenTopics}, MaxDocs)

\* generate_from_documents(documents, user_feedback) is called and returns.
GenCall(documents) ==
    /\ call = NoCall
    /\ call' = [fn |-> "generate_from_documents", documents |-> documents]
    /\ returned' =
           [value |-> RAGQuestGenerator_generate_from_documents(documents)]
    /\ UNCHANGED <<sqs_vars, gate_vars, agent_vars>>

\* Its caller has the dict.
GenReturn ==
    /\ call # NoCall
    /\ call.fn = "generate_from_documents"
    /\ call' = NoCall
    /\ returned' = NoResult
    /\ UNCHANGED <<sqs_vars, gate_vars, agent_vars>>

GenInit ==
    /\ SqsInit(TRUE)
    /\ GateIdle
    /\ CallIdle
    /\ AgentIdle

GenNext ==
    \/ \E documents \in GenInputs : GenCall(documents)
    \/ GenReturn

GenSpec == GenInit /\ [][GenNext]_vars

\* A generate_from_documents call has returned.
Generated == call.fn = "generate_from_documents"

\* The template of a known category.
TemplateOf(category) ==
    IF category = "health" THEN health_quests
    ELSE IF category = "finance" THEN finance_quests
    ELSE skincare_quests

\* C18: for a non-empty document list whose first document has a known
\* category, generate_from_documents returns exactly 3 quests, of
\* difficulty easy, medium, hard in this order, which are the template of
\* the first document's category.
C18_ThreeQuestsOfFirstCategory ==
    (/\ Generated
     /\ call.documents # << >>
     /\ call.documents[1].topic \in Categories) =>
        /\ Len(returned.value.quests) = 3
        /\ returned.value.quests[1].difficulty = "easy"
        /\ returned.value.quests[2].difficulty = "medium"
        /\ returned.value.quests[3].difficulty = "hard"
        /\ returned.value.quests = TemplateOf(call.documents[1].topic)

\* C18 witness: a list whose first document is a finance document and whose
\* last is not has been turned into three quests.
C18_Witness ==
    /\ Generated
    /\ Len(call.documents) >= 2
    /\ call.documents[1].topic = "finance"
    /\ call.documents[Len(call.documents)].topic # "finance"
    /\ Len(returned.value.quests) = 3

\* C19: generate_from_documents returns a value for every document list:
\* an empty quest list for an empty document list, and exactly one generic
\* easy quest when the first document's category has no template.
C19_GenerationIsTotal ==
    Generated =>
        /\ "value" \in DOMAIN returned
        /\ "quests" \in DOMAIN returned.value
        /\ call.documents = << >> => returned.value.quests = << >>
        /\ (/\ call.documents # << >>
            /\ call.documents[1].topic \notin Categories) =>
               /\ Len(returned.value.quests) = 1
               /\ returned.value.quests[1].difficulty = "easy"
               /\ returned.value.quests[1].title = "basic_practice"

\* C19 witness: a list whose first document has a category without
\* template has been turned into one quest.
C19_Witness ==
    /\ Generated
    /\ call.documents # << >>
    /\ call.documents[1].topic = "travel"
    /\ Len(returned.value.quests) = 1

\* -------------------------------------- the classifier called on its own

RECURSIVE SetsUpTo(_, _)
SetsUpTo(S, n) ==
    IF n = 0 THEN {{}}
    ELSE SetsUpTo(S, n - 1) \cup
         {s \cup {x} : s \in SetsUpTo(S, n - 1), x \in S}

\* The texts: every text in which at most MaxKeywords keywords occur.
ClassTexts == SetsUpTo(Keywords, MaxKeywords)

\* SmartQuestSystem._determine_category(content) is called and returns.
ClassCall(content) ==
    /\ call = NoCall
    /\ call' = [fn |-> "_determine_category", content |-> content]
    /\ returned' = [value |-> SmartQuestSystem_determine_category(content)]
    /\ UNCHANGED <<sqs_vars, gate_vars, agent_vars>>

\* Its caller has the category.
ClassReturn ==
    /\ call # NoCall
    /\ call.fn = "_determine_category"
    /\ call' = NoCall
    /\ returned' = NoResult
    /\ UNCHANGED <<sqs_vars, gate_vars, agent_vars>>

ClassInit ==
    /\ SqsInit(TRUE)
    /\ GateIdle
    /\ CallIdle
    /\ AgentIdle

ClassNext ==
    \/ \E content \in ClassTexts : ClassCall(content)
    \/ ClassReturn

ClassSpec == ClassInit /\ [][ClassNext]_vars

\* A _determine_category call has returned.
Classified == call.fn = "_determine_category"

\* A keyword of the set occurs in the text.
Occurs(keywords, content) == \E k \in keywords : k \in content

\* C20: the category returned for a text is one of the three categories:
\* health when a health keyword occurs, otherwise finance when a finance
\* keyword occurs, otherwise skincare when a skincare keyword occurs, and
\* health when no keyword occurs; it depends on the text alone.
C20_FirstMatchingCategory ==
    Classified =>
        /\ returned.value \in Categories
        /\ Occurs(HealthKeywords, call.content) => returned.value = "health"
        /\ (/\ ~Occurs(HealthKeywords, call.content)
            /\ Occurs(FinanceKeywords, call.content))
               => returned.value = "finance"
        /\ (/\ ~Occurs(HealthKeywords, call.content)
            /\ ~Occurs(FinanceKeywords, call.content)
            /\ Occurs(SkincareKeywords, call.content))
               => returned.value = "skincare"
        /\ ~Occurs(Keywords, call.content) => returned.value = "health"

\* C20 witness: a text with a finance keyword and a health keyword has been
\* classified.
C20_Witness ==
    /\ Classified
    /\ Occurs(HealthKeywords, call.content)
    /\ Occurs(FinanceKeywords, call.content)
    /\ returned.value = "health"

\* ------------------------------------------------ two requests at once

\* Two process_user_feedback coroutines on the same SmartQuestSystem: every
\* await of a component method is a point where the other request may run.
ConcNext ==
    \/ Tick
    \/ \E p \in Procs :
          \/ \E content \in Feedbacks : Call(p, content)
          \/ \E ok \in BOOLEAN : Search(p, ok)
          \/ \E ok \in BOOLEAN : GenerateFromExisting(p, ok)
          \/ \E ok \in BOOLEAN : SearchTrustedSources(p, ok)
          \/ \E ok \in BOOLEAN : CreateExpertDocument(p, ok)
          \/ \E ok \in BOOLEAN : SaveExpertDocument(p, ok)
          \/ \E ok \in BOOLEAN : IndexDocument(p, ok)
          \/ \E ok \in BOOLEAN : GenerateFromNew(p, ok)
          \/ Return(p)

ConcSpec == Init /\ [][ConcNext]_vars

\* C16: the similarity scores a reuse result reports for its documents are
\* the scores of these documents for the request's own feedback text.
C16_ReuseReportsOwnScores ==
    \A p \in Procs :
        (/\ pc[p] = "done"
         /\ "method" \in DOMAIN result[p]
         /\ result[p].method = "existing_documents") =>
            /\ Len(result[p].metadata.similarity_scores) = Len(similar_docs[p])
            /\ \A i \in 1..Len(similar_docs[p]) :
                  result[p].metadata.similarity_scores[i] =
                      OpenSearchClient_calculate_mock_similarity(
                          feedback[p],
                          mock_documents[similar_docs[p][i]].content)

\* A request has returned its result dict.
Done(p) == pc[p] = "done"

Reused(p) ==
    /\ Done(p)
    /\ result[p].success
    /\ result[p].method = "existing_documents"

C23_ExactlyOneNewDocument ==
    [][\A p \in Procs :
          /\ SaveExpertDocument(p, TRUE) =>
                Cardinality(DOMAIN mock_storage') =
                    Cardinality(DOMAIN mock_storage) + 1
          /\ IndexDocument(p, TRUE) =>
                Len(mock_documents') = Len(mock_documents) + 1
          /\ GenerateFromNew(p, TRUE) =>
                /\ expert_document[p].document_id \in DOMAIN mock_storage
                /\ mock_storage[expert_document[p].document_id].oid =
                       expert_document[p].oid
                /\ \E i \in 1..Len(mock_documents) :
                      mock_documents[i].oid = expert_document[p].oid]_vars

\* C24: the similarity score a search attaches to a document is not
\* persisted: no record of the store has a similarity_score in its metadata.
C24_ScoreNotPersisted ==
    \A id \in DOMAIN mock_storage :
        "similarity_score" \notin DOMAIN mock_storage[id].metadata

\* The stage that must have completed before a stage of the synthesize
\* path starts.
Predecessor(stage) ==
    CASE stage = "agent" -> "kendra"
      [] stage = "save" -> "agent"
      [] stage = "index" -> "save"
      [] stage = "generate" -> "index"

\* The request's new document is a record of the store.
Persisted(p) ==
    /\ expert_document[p].document_id \in DOMAIN mock_storage
    /\ mock_storage[expert_document[p].document_id].oid = expert_document[p].oid

\* The request's new document is an entry of the index.
Indexed(p) ==
    \E i \in 1..Len(mock_documents) :
        mock_documents[i].oid = expert_document[p].oid

\* C27: on the synthesize path a stage starts only when its predecessor has
\* completed, in the order retrieve, synthesize, persist, index, generate;
\* a request's document is in the index only if it is in the store, and
\* quests are generated from it only when it is in both.
C27_StagesInOrder ==
    /\ [](\A p \in Procs :
             /\ pc[p] \in {"save", "index", "generate"} =>
                    expert_document[p] # NoDocument
             /\ (expert_document[p] # NoDocument /\ Indexed(p)) => Persisted(p)
             /\ pc[p] = "index" => Persisted(p)
             /\ pc[p] = "generate" => Indexed(p)
             /\ (Done(p) /\ result[p].success
                   /\ result[p].method = "new_expert_document") => Indexed(p))
    /\ [][\A p \in Procs :
             (/\ pc'[p] # pc[p]
              /\ pc'[p] \in {"agent", "save", "index", "generate"})
             => pc[p] = Predecessor(pc'[p])]_vars

\* C27 witness: a document has been persisted and indexed and the request
\* is about to generate quests from it.
C27_Witness ==
    /\ pc[1] = "generate"
    /\ Persisted(1)
    /\ Indexed(1)

TopRanked(p) == mock_documents[similar_docs[p][1]]

\* C29: the 3 quests of a reuse result are the template of the category of
\* the top-ranked search result, and no returned document scores higher
\* than it for the feedback; a feedback about the neck is decided reuse and
\* a reuse result for it has the 3 health quests.
C29_QuestsOfTopRanked ==
    \A p \in Procs :
        /\ Reused(p) =>
              /\ Len(result[p].quests) = 3
              /\ TopRanked(p).topic \in Categories
              /\ result[p].quests = TemplateOf(TopRanked(p).topic)
              /\ \A i \in 1..Len(similar_docs[p]) :
                    OpenSearchClient_calculate_mock_similarity(
                        feedback[p], TopRanked(p).content) >=
                    OpenSearchClient_calculate_mock_similarity(
                        feedback[p], mock_documents[similar_docs[p][i]].content)
        /\ feedback[p] = {"mok"} =>
              /\ pc[p] \in {"reuse", "kendra", "agent", "save", "index",
                            "generate"} => sufficient_match[p] = "REUSE"
              /\ Reused(p) => result[p].quests = health_quests

\* C29 witness: a reuse result of two documents, the higher-scoring of
\* which stands later in the index, carries the quests of that document's
\* category.
C29_Witness ==
    /\ Reused(1)
    /\ Len(similar_docs[1]) = 2
    /\ similar_docs[1][1] > similar_docs[1][2]
    /\ TopRanked(1).topic = "finance"
    /\ result[1].quests = finance_quests

\* ------------------------------------- a retriever without a corpus

\* The categories the retriever is asked for: those it has a corpus for and
\* one it has none for.
RetrieverCategories == Categories \cup {"travel"}

\* The feedback texts of these requests: no candidate, a reusable
\* candidate, and a text the two classifiers place differently.
RetrieverFeedbacks == { {}, {"mok"}, {"jusik"} }

\* Step 1 of _create_new_expert_document_and_quest with the retriever
\* answering for `category`: sources = mock_sources.get(category, []).
SearchTrustedSourcesIn(p, category) ==
    /\ pc[p] = "kendra"
    /\ trusted_sources' = [trusted_sources EXCEPT ![p] =
           KendraClient_search_trusted_sources(feedback[p], category)]
    /\ pc' = [pc EXCEPT ![p] = "agent"]
    /\ UNCHANGED <<system_ready, now, requests, objects, mock_documents,
                   mock_storage, feedback, similar_docs, sufficient_match,
                   expert_document, document_id, result, pure_vars>>

RetrieverNext ==
    \/ \E content \in RetrieverFeedbacks : Call(1, content)
    \/ \E ok \in BOOLEAN : Search(1, ok)
    \/ \E ok \in BOOLEAN : GenerateFromExisting(1, ok)
    \/ \E category \in RetrieverCategories : SearchTrustedSourcesIn(1, category)
    \/ \E ok \in BOOLEAN : CreateExpertDocument(1, ok)
    \/ \E ok \in BOOLEAN : SaveExpertDocument(1, ok)
    \/ \E ok \in BOOLEAN : IndexDocument(1, ok)
    \/ \E ok \in BOOLEAN : GenerateFromNew(1, ok)
    \/ Return(1)

RetrieverSpec == Init /\ [][RetrieverNext]_vars

\* The retriever has answered the request with no excerpt.
NoExcerpts(p) ==
    /\ pc[p] \in {"agent", "save", "index", "generate", "done"}
    /\ sufficient_match[p] # "unset"
    /\ expert_document[p] # NoDocument \/ pc[p] = "agent"
    /\ trusted_sources[p] = << >>

\* C30: when the retriever returned no excerpt, the document is authored
\* with a trusted-source count of 0, and a request that then succeeds has
\* persisted and indexed it, carries 3 quests and reports a trusted-source
\* count of 0.
C30_EmptyExcerptsAreValid ==
    \A p \in Procs :
        NoExcerpts(p) =>
            /\ expert_document[p] # NoDocument =>
                  /\ expert_document[p].metadata.trusted_sources_count = 0
                  /\ expert_document[p].content = feedback[p]
            /\ (Done(p) /\ result[p].success) =>
                  /\ result[p].method = "new_expert_document"
                  /\ result[p].metadata.trusted_sources_count = 0
                  /\ Len(result[p].quests) = 3
                  /\ Persisted(p)
                  /\ Indexed(p)

\* C30 witness: a request whose retriever returned no excerpt has succeeded.
C30_Witness ==
    /\ Done(1)
    /\ NoExcerpts(1)
    /\ result[1].success
    /\ result[1].metadata.trusted_sources_count = 0

\* ============================================== the quest agents (agent2)

\* A day is named by its number; a timestamp is the midnight that starts a
\* day, named by that day's number.

Users == {"u1", "u2"}

Clubs == {1}

\* Results a Knowledge Base retrieval may return (numberOfResults is 10;
\* more than 3 are cut to 3).
KbCounts == 0..4

\* Quests a Bedrock response may list (3 are asked for).
BedrockCounts == 1..4

\* Mutant of get_tomorrow_timestamp: timedelta(days=1) is missing.
QuestService_get_tomorrow_timestamp_Today(day) == day

\* QuestService.get_tomorrow_timestamp: midnight of the day after `day`.
QuestService_get_tomorrow_timestamp(day) == day + 1

\* QuestService.get_random_quests_from_kb on a retrieval of `results`
\* results (not none): results[:count], one quest each, user still empty.
QuestService_get_random_quests_from_kb(club_id, results, count, day) ==
    [i \in 1..Min(count, results) |->
        [user |-> "",
         clubId |-> club_id,
         date |-> QuestService_get_tomorrow_timestamp(day),
         questTitle |-> [src |-> "kb", n |-> i],
         questDescription |-> i]]

\* The loops of process_feedback_quest: `quest['user'] = user` on the
\* Knowledge Base quests.
WithUser(quests, user) ==
    [i \in 1..Len(quests) |-> [quests[i] EXCEPT !.user = user]]

\* ... and the formatted_quest built from each quest Bedrock generated.
FormattedQuests(user, club_id, generated, day) ==
    [i \in 1..generated |->
        [user |-> user,
         clubId |-> club_id,
         date |-> QuestService_get_tomorrow_timestamp(day),
         questTitle |-> [src |-> "bedrock", n |-> i],
         questDescription |-> i]]

\* opensearch_client.bulk of the first `saved` quests without an id: the
\* index names each document itself.
BulkIndexed(index, quests, saved) ==
    [exists |-> TRUE,
     docs |-> index.docs \cup
              {[id |-> [auto |-> index.auto_ids + i, key |-> << >>],
                user |-> quests[i].user,
                clubId |-> quests[i].clubId,
                date |-> quests[i].date,
                questTitle |-> quests[i].questTitle,
                questDescription |-> quests[i].questDescription] :
                  i \in 1..saved},
     auto_ids |-> index.auto_ids + saved]

\* The clock passes midnight.
DayTick ==
    /\ today < MaxDay
    /\ today' = today + 1
    /\ UNCHANGED <<sqs_vars, gate_vars, outer_vars, call_vars, quest_index, agent_calls,
                   effects>>

\* process_feedback_quest(user, quest_title, club_id, club_title, feedback,
\* is_like) is called.
FeedbackCall(user, club_id, is_like) ==
    /\ call = NoCall
    /\ agent_calls' = agent_calls + 1
    /\ call' = [fn |-> "process_feedback_quest", user |-> user,
                club_id |-> club_id, is_like |-> is_like, stage |-> "build",
                quests |-> << >>, base |-> quest_index.auto_ids,
                kb_results |-> 0, built_on |-> today]
    /\ effects' = NoEffects
    /\ UNCHANGED <<sqs_vars, gate_vars, outer_vars, returned, quest_index, today>>

\* The dict of the except block.
FeedbackFailure(error) == [value |-> [success |-> FALSE, error |-> error]]

\* is_like: get_random_quests_from_kb(club_id, club_title, 3).  The
\* retrieval raises, or returns `results` results; none is an exception too.
FeedbackFromKb(results, ok) ==
    /\ call.fn = "process_feedback_quest"
    /\ call.stage = "build"
    /\ call.is_like
    /\ effects' = [effects EXCEPT !.kb = @ + 1]
    /\ IF ok /\ results > 0
       THEN /\ call' = [call EXCEPT
                   !.stage = "save",
                   !.kb_results = results,
                   !.built_on = today,
                   !.quests = WithUser(
                       QuestService_get_random_quests_from_kb(
                           call.club_id, results, 3, today), call.user)]
            /\ UNCHANGED returned
       ELSE /\ call' = [call EXCEPT !.stage = "done"]
            /\ returned' = FeedbackFailure("kb_failed")
    /\ UNCHANGED <<sqs_vars, gate_vars, outer_vars, quest_index, today, agent_calls>>

\* not is_like: generate_quests_with_bedrock(club_title, quest_title,
\* feedback, 3).  The call or the parsing raises, or the response lists
\* `generated` quests.
FeedbackFromBedrock(generated, ok) ==
    /\ call.fn = "process_feedback_quest"
    /\ call.stage = "build"
    /\ ~call.is_like
    /\ effects' = [effects EXCEPT !.bedrock = @ + 1]
    /\ IF ok
       THEN /\ call' = [call EXCEPT
                   !.stage = "save",
                   !.built_on = today,
                   !.quests = FormattedQuests(call.user, call.club_id,
                                              generated, today)]
            /\ UNCHANGED returned
       ELSE /\ call' = [call EXCEPT !.stage = "done"]
            /\ returned' = FeedbackFailure("bedrock_failed")
    /\ UNCHANGED <<sqs_vars, gate_vars, outer_vars, quest_index, today, agent_calls>>


\* save_quests_to_opensearch(quests): one bulk request.  `saved` of the
\* quests are indexed; fewer than all of them is a bulk error, which raises.
FeedbackSave(saved) ==
    /\ call.fn = "process_feedback_quest"
    /\ call.stage = "save"
    /\ saved \in 0..Len(call.quests)
    /\ effects' = [effects EXCEPT !.writes = @ + 1]
    /\ quest_index' = IF saved = 0
                      THEN quest_index
                      ELSE BulkIndexed(quest_index, call.quests, saved)
    /\ call' = [call EXCEPT !.stage = "done"]
    /\ returned' = IF saved = Len(call.quests)
                   THEN [value |-> [success |-> TRUE,
                                    quest_count |-> Len(call.quests)]]
                   ELSE FeedbackFailure("save_failed")
    /\ UNCHANGED <<sqs_vars, gate_vars, outer_vars, today, agent_calls>>

\* The caller takes the dict.
FeedbackReturn ==
    /\ call.fn = "process_feedback_quest"
    /\ call.stage = "done"
    /\ call' = NoCall
    /\ returned' = NoResult
    /\ effects' = NoEffects
    /\ UNCHANGED <<sqs_vars, gate_vars, outer_vars, quest_index, today, agent_calls>>

FeedbackNext ==
    \/ DayTick
    \/ /\ agent_calls < MaxFeedbacks
       /\ \E user \in Users, club_id \in Clubs, is_like \in BOOLEAN :
              FeedbackCall(user, club_id, is_like)
    \/ \E results \in KbCounts, ok \in BOOLEAN : FeedbackFromKb(results, ok)
    \/ \E generated \in BedrockCounts, ok \in BOOLEAN :
           FeedbackFromBedrock(generated, ok)
    \/ \E saved \in 0..4 : FeedbackSave(saved)
    \/ FeedbackReturn

FeedbackSpec == Init /\ [][FeedbackNext]_vars


\* ---------------------------------------------------------------- C25

\* process_feedback_quest has built its dict and not yet handed it over.
FeedbackDone == call.fn = "process_feedback_quest" /\ call.stage = "done"

\* The documents the current request added to the index.
SavedBy == {d \in quest_index.docs : d.id.auto > call.base}

\* Positive feedback retrieves once and never generates, negative feedback
\* generates once and never retrieves, and what the request saved carries
\* the requesting user and the midnight after the day it was built on.
FeedbackBranches ==
    /\ call.is_like => effects.kb = 1 /\ effects.bedrock = 0
    /\ ~call.is_like => effects.bedrock = 1 /\ effects.kb = 0
    /\ \A d \in SavedBy :
           /\ d.user = call.user
           /\ d.date = call.built_on + 1

SearchSize == 10

\* get_today_timestamp: midnight of `day`.
get_today_timestamp(day) == day

\* The hits of a search, listed in the order the index gives them: some
\* order, the same for the same hits.
RECURSIVE SetToSeq(_)
SetToSeq(S) ==
    IF S = {} THEN << >>
    ELSE LET x == CHOOSE y \in S : TRUE
         IN  <<x>> \o SetToSeq(S \ {x})

\* hit['_source']: the document without the id the index keeps it under.
SourceOf(d) ==
    [user |-> d.user, clubId |-> d.clubId, date |-> d.date,
     questTitle |-> d.questTitle, questDescription |-> d.questDescription]

\* The documents the three term clauses of search_today_quests match.
Matching(index, user, club_id, day) ==
    {d \in index.docs : /\ d.user = user
                        /\ d.clubId = club_id
                        /\ d.date = get_today_timestamp(day)}

\* The formatted_quest loop of generate_quest over `files` files.  The last
\* `dummies` of them generate_quest_from_markdown answered with
\* create_dummy_quest (one title and one description for all of them); for
\* the others the model wrote a quest of its own, under titles that all
\* differ or, when `distinct` is false, under one title.
GeneratedQuests(user, club_id, files, dummies, distinct, day) ==
    [i \in 1..files |->
        [user |-> user,
         clubId |-> club_id,
         date |-> get_today_timestamp(day),
         questTitle |-> IF i > files - dummies
                        THEN [src |-> "dummy", n |-> 0]
                        ELSE [src |-> "file", n |-> IF distinct THEN i ELSE 1],
         questDescription |-> IF i > files - dummies THEN 0 ELSE i]]

\* doc_id of index_quests.
DocId(q) == [auto |-> 0, key |-> <<q.user, q.clubId, q.date, q.questTitle>>]

\* index_quests after client.index of the first `written` documents, one
\* by one: a document indexed under an id replaces the one kept under it,
\* so of several quests with one id the last written stays.
Indexed_quests(index, quests, written) ==
    LET last == {i \in 1..written :
                    \A j \in (i + 1)..written :
                        DocId(quests[j]) # DocId(quests[i])}
        new == {[id |-> DocId(quests[i]),
                 user |-> quests[i].user,
                 clubId |-> quests[i].clubId,
                 date |-> quests[i].date,
                 questTitle |-> quests[i].questTitle,
                 questDescription |-> quests[i].questDescription] :
                   i \in last}
    IN  [index EXCEPT
            !.docs = {d \in index.docs : \A n \in new : n.id # d.id}
                     \cup new]

\* generate_quest(user, club_id, club_title) is called.
GenerateQuestCall(user, club_id) ==
    /\ call = NoCall
    /\ agent_calls' = agent_calls + 1
    /\ call' = [fn |-> "generate_quest", user |-> user, club_id |-> club_id,
                stage |-> "search", existing |-> {}, hits |-> {},
                quests |-> << >>, before |-> quest_index.docs]
    /\ effects' = NoEffects
    /\ UNCHANGED <<sqs_vars, gate_vars, outer_vars, returned, quest_index, today>>

\* search_today_quests: ensure_index creates the index when it is missing;
\* then the search raises, or answers with at most SearchSize of the
\* matching documents.
SearchTodayQuests(ok) ==
    /\ call.fn = "generate_quest"
    /\ call.stage = "search"
    /\ quest_index' = [quest_index EXCEPT !.exists = TRUE]
    /\ effects' = IF quest_index.exists
                  THEN effects
                  ELSE [effects EXCEPT !.creates = @ + 1]
    /\ LET matching == Matching(quest_index, call.user, call.club_id, today)
       IN  IF ~ok
           THEN /\ call' = [call EXCEPT !.stage = "done"]
                /\ returned' = [raised |-> TRUE]
           ELSE IF matching = {}
           THEN /\ call' = [call EXCEPT !.stage = "files"]
                /\ UNCHANGED returned
           ELSE \E hits \in SUBSET matching :
                    /\ Cardinality(hits) =
                           Min(SearchSize, Cardinality(matching))
                    /\ call' = [call EXCEPT !.stage = "done",
                                            !.existing = matching,
                                            !.hits = hits]
                    /\ returned' =
                           [value |->
                               [user |-> call.user,
                                questList |->
                                    LET listed == SetToSeq(hits)
                                    IN  [i \in 1..Len(listed) |->
                                            SourceOf(listed[i])]]]
    /\ UNCHANGED <<sqs_vars, gate_vars, outer_vars, today, agent_calls>>


\* No quest of today: get_random_files_from_kb(club_title, 3) answers with
\* `files` files (it never raises), and generate_quest_from_markdown makes
\* one quest of each (it never raises either).
GenerateFromFiles(files, dummies, distinct) ==
    /\ call.fn = "generate_quest"
    /\ call.stage = "files"
    /\ dummies \in 0..files
    /\ effects' = [effects EXCEPT !.kb = @ + 1, !.bedrock = @ + files]
    /\ call' = [call EXCEPT
                   !.stage = "index",
                   !.quests = GeneratedQuests(call.user, call.club_id,
                                              files, dummies, distinct,
                                              today)]
    /\ UNCHANGED <<sqs_vars, gate_vars, outer_vars, returned, quest_index, today,
                   agent_calls>>

\* ensure_index, then index_quests(generated_quests): `written` of the
\* documents are indexed; fewer than all of them is an exception, which
\* generate_quest raises again.
IndexQuests(written) ==
    /\ call.fn = "generate_quest"
    /\ call.stage = "index"
    /\ written \in 0..Len(call.quests)
    /\ effects' = [effects EXCEPT
                      !.writes = @ + written,
                      !.creates = IF quest_index.exists THEN @ ELSE @ + 1]
    /\ quest_index' = Indexed_quests(
                          [quest_index EXCEPT !.exists = TRUE],
                          call.quests, written)
    /\ call' = [call EXCEPT !.stage = "done"]
    /\ returned' = IF written = Len(call.quests)
                   THEN [value |-> [user |-> call.user,
                                    questList |-> call.quests]]
                   ELSE [raised |-> TRUE]
    /\ UNCHANGED <<sqs_vars, gate_vars, outer_vars, today, agent_calls>>

\* The caller takes the dict, or the exception.
GenerateQuestReturn ==
    /\ call.fn = "generate_quest"
    /\ call.stage = "done"
    /\ call' = NoCall
    /\ returned' = NoResult
    /\ effects' = NoEffects
    /\ UNCHANGED <<sqs_vars, gate_vars, outer_vars, quest_index, today, agent_calls>>

\* The two agents serve one user's requests, one request at a time, over
\* the index they share.
QuestNext ==
    \/ DayTick
    \/ /\ agent_calls < MaxAgentCalls
       /\ \E club_id \in Clubs, is_like \in BOOLEAN :
              FeedbackCall("u1", club_id, is_like)
    \/ \E results \in KbCounts, ok \in BOOLEAN : FeedbackFromKb(results, ok)
    \/ \E generated \in BedrockCounts, ok \in BOOLEAN :
           FeedbackFromBedrock(generated, ok)
    \/ \E saved \in 0..4 : FeedbackSave(saved)
    \/ FeedbackReturn
    \/ /\ agent_calls < MaxAgentCalls
       /\ \E club_id \in Clubs : GenerateQuestCall("u1", club_id)
    \/ \E ok \in BOOLEAN : SearchTodayQuests(ok)
    \/ \E files \in 1..3, dummies \in 0..3, distinct \in BOOLEAN :
           GenerateFromFiles(files, dummies, distinct)
    \/ \E written \in 0..3 : IndexQuests(written)
    \/ GenerateQuestReturn

QuestSpec == Init /\ [][QuestNext]_vars


\* ---------------------------------------------------------------- C26

\* generate_quest has its dict ready and has not yet handed it over.
GenerateDone ==
    /\ call.fn = "generate_quest"
    /\ call.stage = "done"
    /\ "value" \in DOMAIN returned

\* The request left the index and the services alone.
NoSideEffect ==
    /\ effects.kb = 0
    /\ effects.bedrock = 0
    /\ effects.writes = 0
    /\ quest_index.docs = call.before

\* Every returned quest was written to the index: there is a document
\* under its id.
AllIndexed ==
    \A i \in 1..Len(call.quests) :
        \E d \in quest_index.docs : d.id = DocId(call.quests[i])

\* What generate_quest did, by what its search found.
ExistingOrGenerated ==
    IF call.existing # {}
    THEN /\ call.hits = call.existing
         /\ Len(returned.value.questList) = Cardinality(call.existing)
         /\ NoSideEffect
    ELSE /\ returned.value.questList = call.quests
         /\ Len(call.quests) > 0
         /\ effects.kb = 1
         /\ effects.bedrock = Len(call.quests)
         /\ AllIndexed

\* C26: generate_quest, when quests dated today exist for the (user, club),
\* returns exactly those quests without Knowledge Base retrieval, quest
\* generation or index write; only when none exist does it generate quests,
\* and it indexes them before returning them.
C26_ReturnsExistingOrGenerates == GenerateDone => ExistingOrGenerated

\* The same, for requests that find at most SearchSize quests of today.
GenerateQuestWithinSearchSize ==
    GenerateDone /\ Cardinality(call.existing) <= SearchSize
        => ExistingOrGenerated


\* ---------------------------------------------------------------- C31

\* The indexed documents without what searches wrote on them.
Unscored(documents) ==
    [i \in 1..Len(documents) |->
        [documents[i] EXCEPT !.metadata =
            [k \in DOMAIN @ \ {"similarity_score"} |-> @[k]]]]

\* The score an earlier search with another query left on document k.
StaleScore(k) ==
    /\ "similarity_score" \in DOMAIN mock_documents[k].metadata
    /\ mock_documents[k].metadata.similarity_score #
           OpenSearchClient_calculate_mock_similarity(
               call.query, mock_documents[k].content)

RepeatNext ==
    \/ Tick
    \/ \E content \in Feedbacks : Call(1, content)
    \/ Search(1, TRUE)
    \/ GenerateFromExisting(1, TRUE)
    \/ SearchTrustedSources(1, TRUE)
    \/ CreateExpertDocument(1, TRUE)
    \/ SaveExpertDocument(1, TRUE)
    \/ IndexDocument(1, TRUE)
    \/ GenerateFromNew(1, TRUE)
    \/ Return(1)

RepeatSpec == Init /\ [][RepeatNext]_vars

\* The indexed documents an earlier request authored for the text f.
AuthoredFor(f, p) ==
    {k \in 1..Len(mock_documents) :
        /\ "user_request" \in DOMAIN mock_documents[k].metadata
        /\ mock_documents[k].metadata.user_request = f
        /\ mock_documents[k].oid # expert_document[p].oid}

\* C32: a request for a feedback that an earlier request synthesized a
\* document for takes the reuse path, so no feedback ever has two
\* documents synthesized for it.
C32_RepeatReuses ==
    \A p \in Procs :
        /\ (/\ sufficient_match[p] # "unset"
            /\ AuthoredFor(feedback[p], p) # {})
           => sufficient_match[p] = "REUSE"
        /\ \A f \in Feedbacks :
               Cardinality(AuthoredFor(f, 2)) <= 1


\* ===================================== agent2: the Lambda entry point

\* What the event's body is: not JSON, a dict lacking a required field,
\* or a dict with all of them.
EventBodies == {"bad_json", "missing", "complete"}

\* What the agent's final text is: the tool's dict as a JSON object, prose
\* holding the word success, or prose without it.
AgentTexts == {"json", "prose_success", "prose"}

\* The dict of the missing-field check and of the except block of
\* process_quest_feedback.
QuestFeedbackFailure(error) == [success |-> FALSE, error |-> error]

\* process_quest_feedback after agent(prompt) answered `text`: the JSON
\* object holding "success" if there is one, else the default success dict.
process_quest_feedback_result(text, tool_success) ==
    IF text = "json"
    THEN [success |-> tool_success]
    ELSE [success |-> TRUE, quest_count |-> 3]

\* lambda_handler: 200 if result.get('success') else 500.
StatusOf(dict) == IF dict.success THEN 200 ELSE 500

\* The tool ran to its end during the current event.
ToolRan == call.fn = "process_feedback_quest" /\ call.stage = "done"

\* lambda_handler(event, context) is called: the body is parsed, and
\* process_quest_feedback checks the required fields.
LambdaHandlerCall(user, club_id, is_like, body) ==
    /\ handler = NoCall
    /\ call = NoCall
    /\ handler' =
           IF body = "bad_json"
           THEN [fn |-> "lambda_handler", stage |-> "done",
                 status |-> 400,
                 result |-> QuestFeedbackFailure("bad_json")]
           ELSE IF body = "missing"
           THEN [fn |-> "lambda_handler", stage |-> "done",
                 status |-> StatusOf(QuestFeedbackFailure("missing")),
                 result |-> QuestFeedbackFailure("missing")]
           ELSE [fn |-> "lambda_handler", stage |-> "agent",
                 user |-> user, club_id |-> club_id, is_like |-> is_like]
    /\ UNCHANGED <<sqs_vars, gate_vars, call_vars, quest_index, today,
                   agent_calls, effects, service>>

\* agent(prompt): the model decides to use the tool, with the event's
\* fields.
AgentInvokesTool ==
    /\ handler.fn = "lambda_handler"
    /\ handler.stage = "agent"
    /\ agent_calls < MaxFeedbacks
    /\ FeedbackCall(handler.user, handler.club_id, handler.is_like)

\* agent(prompt) returns its final text, having used the tool or not.
AgentResponds(text) ==
    /\ handler.fn = "lambda_handler"
    /\ handler.stage = "agent"
    /\ call = NoCall \/ ToolRan
    /\ text = "json" => ToolRan
    /\ LET dict == process_quest_feedback_result(
                       text, ToolRan /\ returned.value.success)
       IN  handler' = [fn |-> "lambda_handler", stage |-> "done",
                       status |-> StatusOf(dict), result |-> dict]
    /\ UNCHANGED <<sqs_vars, gate_vars, call_vars, quest_index, today,
                   agent_calls, effects, service>>

\* agent(prompt) raises: the except block of process_quest_feedback.
AgentRaises ==
    /\ handler.fn = "lambda_handler"
    /\ handler.stage = "agent"
    /\ call = NoCall \/ ToolRan
    /\ handler' = [fn |-> "lambda_handler", stage |-> "done",
                   status |-> StatusOf(QuestFeedbackFailure("agent")),
                   result |-> QuestFeedbackFailure("agent")]
    /\ UNCHANGED <<sqs_vars, gate_vars, call_vars, quest_index, today,
                   agent_calls, effects, service>>

\* The response is handed to the invoker.
LambdaHandlerReturn ==
    /\ handler.fn = "lambda_handler"
    /\ handler.stage = "done"
    /\ handler' = NoCall
    /\ call' = NoCall
    /\ returned' = NoResult
    /\ effects' = NoEffects
    /\ UNCHANGED <<sqs_vars, gate_vars, quest_index, today, agent_calls,
                   service>>

LambdaNext ==
    \/ DayTick
    \/ \E user \in Users, club_id \in Clubs, is_like \in BOOLEAN,
          body \in EventBodies : LambdaHandlerCall(user, club_id, is_like, body)
    \/ AgentInvokesTool
    \/ \E results \in KbCounts, ok \in BOOLEAN : FeedbackFromKb(results, ok)
    \/ \E generated \in BedrockCounts, ok \in BOOLEAN :
           FeedbackFromBedrock(generated, ok)
    \/ \E saved \in 0..4 : FeedbackSave(saved)
    \/ \E text \in AgentTexts : AgentResponds(text)
    \/ AgentRaises
    \/ LambdaHandlerReturn

LambdaSpec == Init /\ [][LambdaNext]_vars


\* ---------------------------------------------------------------- C33

\* lambda_handler of agent2 has its response ready.
Responded == handler.fn = "lambda_handler" /\ handler.stage = "done"

\* The tool ran during the event and reported success: the quests are
\* saved.
ToolSaved == ToolRan /\ returned.value.success

\* C33: process_quest_feedback reports success only if the tool ran and
\* saved the quests; when the tool failed or was never used the result has
\* success false and the Lambda status is not 200.
C33_SuccessOnlyIfSaved ==
    Responded =>
        /\ handler.result.success => ToolSaved
        /\ ~ToolSaved => handler.status # 200


\* ---------------------------------------------------------------- C34

\* generate_quest generated, indexed and is returning quests dated today,
\* and no quest of today was there when it was called.
GeneratedToday ==
    /\ GenerateDone
    /\ call.existing = {}
    /\ \A i \in 1..Len(call.quests) : call.quests[i].date = today
    /\ Matching([docs |-> call.before], call.user, call.club_id, today) = {}

\* The quests generate_quest returns, as a set.
ReturnedQuests ==
    {returned.value.questList[i] : i \in 1..Len(returned.value.questList)}

\* The quests a generate_quest for the same user and club would find now.
QuestsOfToday ==
    {SourceOf(d) :
        d \in Matching(quest_index, call.user, call.club_id, today)}

\* C34: when generate_quest has generated and indexed quests without
\* error, a second call for the same user and club on the same day returns
\* the same set of quests: the quests of today in the index are, as a
\* set, those being returned, whatever titles they have.
C34_SecondCallReturnsSame ==
    GeneratedToday => QuestsOfToday = ReturnedQuests


\* ---------------------------------------------------------------- C35

\* C35: whatever generateQuest and feedbackQuest requests were served
\* before, the quest list generate_quest returns holds at most 3 quests.
C35_AtMostThreeQuests ==
    GenerateDone => Len(returned.value.questList) <= 3


\* ===================================== agent1: the Lambda entry point

\* What parse_event makes of the event: the method ("none" when the event
\* names none), the path ("none" likewise; "other" holds neither route's
\* name), and the request body: a dict with every required parameter, a
\* dict lacking one, or not a dict (a body that is not a JSON object).
EventMethods == {"POST", "GET", "none"}

EventPaths == {"generateQuest", "feedbackQuest", "other", "none"}

RequestBodies == {"complete", "missing", "text"}

\* create_response(status_code, body).
create_response(status_code, event) ==
    [fn |-> "agent1_lambda_handler", stage |-> "done",
     status |-> status_code, event |-> event]

\* lambda_handler: the method check and the routing.
RouteOf(method, path) ==
    IF method \notin {"none", "POST"} THEN "405"
    ELSE IF path \in {"none", "generateQuest"} THEN "generateQuest"
    ELSE IF path = "feedbackQuest" THEN "feedbackQuest"
    ELSE "404"

\* lambda_handler(event, context) is called and runs up to the first await
\* of the route's handler.  request_body.get on a body that is not a dict
\* raises in handle_generate_quest_route, outside its try: the except block
\* of lambda_handler answers 500.  handle_feedback_route finds every field
\* missing in such a body.
GatewayCall(method, path, body) ==
    /\ handler = NoCall
    /\ call = NoCall
    /\ agent_calls < MaxFeedbacks
    /\ effects' = NoEffects
    /\ LET route == RouteOf(method, path)
           event == [method |-> method, path |-> path, body |-> body]
       IN  handler' =
               IF route = "405" THEN create_response(405, event)
               ELSE IF route = "404" THEN create_response(404, event)
               ELSE IF route = "generateQuest" /\ body = "text"
               THEN create_response(500, event)
               ELSE IF body # "complete" THEN create_response(400, event)
               ELSE [fn |-> "agent1_lambda_handler", stage |-> route,
                     event |-> event]
    /\ UNCHANGED <<sqs_vars, gate_vars, call_vars, quest_index, today,
                   agent_calls, service>>

\* handle_generate_quest_route: quest_agent.generate_quest(user, club_id,
\* club_title).
GatewayGenerates(user, club_id) ==
    /\ handler.fn = "agent1_lambda_handler"
    /\ handler.stage = "generateQuest"
    /\ GenerateQuestCall(user, club_id)

\* ... has returned or raised: 200 with the result, or 500.
GatewayGenerated ==
    /\ handler.fn = "agent1_lambda_handler"
    /\ handler.stage = "generateQuest"
    /\ call.fn = "generate_quest"
    /\ call.stage = "done"
    /\ handler' = create_response(
                      IF "value" \in DOMAIN returned THEN 200 ELSE 500,
                      handler.event)
    /\ UNCHANGED <<sqs_vars, gate_vars, call_vars, quest_index, today,
                   agent_calls, effects, service>>

\* handle_feedback_route: feedback_agent.handle_feedback(request_body)
\* invokes the Lambda function of agent2; 200 with its payload, or 500.
GatewayInvokes(ok) ==
    /\ handler.fn = "agent1_lambda_handler"
    /\ handler.stage = "feedbackQuest"
    /\ effects' = [effects EXCEPT !.invokes = @ + 1]
    /\ handler' = create_response(IF ok THEN 200 ELSE 500, handler.event)
    /\ UNCHANGED <<sqs_vars, gate_vars, call_vars, quest_index, today,
                   agent_calls, service>>

\* The response is handed to the invoker.
GatewayReturn ==
    /\ handler.fn = "agent1_lambda_handler"
    /\ handler.stage = "done"
    /\ handler' = NoCall
    /\ call' = NoCall
    /\ returned' = NoResult
    /\ effects' = NoEffects
    /\ UNCHANGED <<sqs_vars, gate_vars, quest_index, today, agent_calls,
                   service>>

GatewayNext ==
    \/ DayTick
    \/ \E method \in EventMethods, path \in EventPaths,
          body \in RequestBodies : GatewayCall(method, path, body)
    \/ \E user \in Users, club_id \in Clubs : GatewayGenerates(user, club_id)
    \/ \E ok \in BOOLEAN : SearchTodayQuests(ok)
    \/ \E files \in 1..3, dummies \in 0..3, distinct \in BOOLEAN :
           GenerateFromFiles(files, dummies, distinct)
    \/ \E written \in 0..3 : IndexQuests(written)
    \/ GatewayGenerated
    \/ \E ok \in BOOLEAN : GatewayInvokes(ok)
    \/ GatewayReturn

GatewaySpec == Init /\ [][GatewayNext]_vars


\* ---------------------------------------------------------------- C36

\* lambda_handler of agent1 has its response ready.
Answered == handler.fn = "agent1_lambda_handler" /\ handler.stage = "done"

\* The status the event is to be rejected with; 0 when it is to be served.
RejectionOf(event) ==
    IF event.method \notin {"POST", "none"} THEN 405
    ELSE IF event.path = "other" THEN 404
    ELSE IF event.body # "complete" THEN 400
    ELSE 0

\* Nothing was called and nothing written while the event was served.
Untouched ==
    /\ effects = NoEffects
    /\ call = NoCall

\* C36: lambda_handler answers a method other than POST with 405, a path
\* naming neither route with 404 and a request lacking a required
\* parameter with 400, and in these cases calls neither OpenSearch nor the
\* Knowledge Base, Bedrock or Lambda.
C36_RejectsBeforeSideEffects ==
    Answered /\ RejectionOf(handler.event) # 0 =>
        /\ handler.status = RejectionOf(handler.event)
        /\ Untouched

\* The same, for requests whose body is a JSON object.
RejectsDictRequests ==
    Answered /\ RejectionOf(handler.event) # 0
             /\ handler.event.body # "text" =>
        /\ handler.status = RejectionOf(handler.event)
        /\ Untouched



\* ------------------------------------------------- agent.py: save tool

\* Longest quest list the agent hands to save_generated_quests.
MaxSaved == 2

\* A quest of the list, as the agent wrote it: its title may be missing.
SaveQuests ==
    {[questTitle |-> "missing", questDescription |-> 1],
     [questTitle |-> "given", questDescription |-> 1],
     [questTitle |-> "given", questDescription |-> 2]}

\* The documents save_generated_quests prepares: the date is tomorrow's,
\* and a quest without a title is named by its position in the list.
SaveDocuments(user_id, club_id, quests, day) ==
    [i \in 1..Len(quests) |->
        [user |-> user_id,
         clubId |-> club_id,
         date |-> QuestService_get_tomorrow_timestamp(day),
         questTitle |-> IF quests[i].questTitle = "missing"
                        THEN [src |-> "default", n |-> i]
                        ELSE [src |-> "agent", n |-> 1],
         questDescription |-> quests[i].questDescription]]

\* The bulk request without the "_id" of its action lines: the index names
\* each stored document itself.
BulkSaved_NoId(index, documents, stored) ==
    LET order == SetToSeq(stored)
    IN  [index EXCEPT
            !.docs = @ \cup
                {[id |-> [auto |-> index.auto_ids + k, key |-> << >>],
                  user |-> documents[order[k]].user,
                  clubId |-> documents[order[k]].clubId,
                  date |-> documents[order[k]].date,
                  questTitle |-> documents[order[k]].questTitle,
                  questDescription |-> documents[order[k]].questDescription] :
                    k \in 1..Len(order)},
            !.auto_ids = @ + Len(order)]

\* opensearch_client.bulk(body): the items `stored` of the request are
\* indexed in the order of the list, each under its doc_id
\* user::club::date::title, replacing the document kept under that id.
BulkSaved(index, documents, stored) ==
    LET last == {i \in stored :
                    \A j \in stored :
                        j > i => DocId(documents[j]) # DocId(documents[i])}
        new == {[id |-> DocId(documents[i]),
                 user |-> documents[i].user,
                 clubId |-> documents[i].clubId,
                 date |-> documents[i].date,
                 questTitle |-> documents[i].questTitle,
                 questDescription |-> documents[i].questDescription] :
                   i \in last}
    IN  [index EXCEPT
            !.docs = {d \in index.docs : \A n \in new : n.id # d.id}
                     \cup new]

\* save_generated_quests(user_id, club_id, club_title, quests) is called
\* and prepares its documents.
SaveCall(user_id, club_id, quests) ==
    /\ call = NoCall
    /\ agent_calls' = agent_calls + 1
    /\ call' = [fn |-> "save_generated_quests", stage |-> "bulk",
                user |-> user_id, club_id |-> club_id, quests |-> quests,
                documents |-> SaveDocuments(user_id, club_id, quests, today),
                tomorrow |-> QuestService_get_tomorrow_timestamp(today),
                before |-> quest_index.docs]
    /\ effects' = NoEffects
    /\ UNCHANGED <<sqs_vars, gate_vars, outer_vars, returned, quest_index, today>>

\* The bulk request: the index stores the items `stored`; the request
\* raises (an empty body always does), or its response reports the items
\* that failed, or all of them are stored.
SaveBulk(stored, raised) ==
    /\ call.fn = "save_generated_quests"
    /\ call.stage = "bulk"
    /\ stored \subseteq 1..Len(call.documents)
    /\ Len(call.documents) = 0 => raised
    /\ quest_index' = BulkSaved([quest_index EXCEPT !.exists = TRUE],
                                call.documents, stored)
    /\ effects' = [effects EXCEPT !.writes = @ + Cardinality(stored)]
    /\ call' = [call EXCEPT !.stage = "done"]
    /\ returned' =
         IF raised \/ stored # 1..Len(call.documents)
         THEN FeedbackFailure("save")
         ELSE [value |-> [success |-> TRUE,
                          saved_count |-> Len(call.documents),
                          quest_date |-> call.tomorrow]]
    /\ UNCHANGED <<sqs_vars, gate_vars, outer_vars, today, agent_calls>>

\* The agent takes the tool's dict.
SaveReturn ==
    /\ call.fn = "save_generated_quests"
    /\ call.stage = "done"
    /\ call' = NoCall
    /\ returned' = NoResult
    /\ effects' = NoEffects
    /\ UNCHANGED <<sqs_vars, gate_vars, outer_vars, quest_index, today, agent_calls>>

\* The module is loaded: no list was saved yet.
SaveInit ==
    /\ SqsInit(TRUE)
    /\ GateIdle
    /\ CallIdle
    /\ AgentIdle

\* The agent saves quest lists of one user, one list at a time.  The tool
\* reads the clock once, when it begins, so midnight passes between calls.
SaveNext ==
    \/ call = NoCall /\ DayTick
    \/ /\ agent_calls < MaxFeedbacks
       /\ \E club_id \in Clubs, quests \in SeqsUpTo(SaveQuests, MaxSaved) :
              SaveCall("u1", club_id, quests)
    \/ \E stored \in SUBSET (1..MaxSaved), raised \in BOOLEAN :
           SaveBulk(stored, raised)
    \/ SaveReturn

SaveSpec == SaveInit /\ [][SaveNext]_vars


\* ---------------------------------------------------------------- C37

\* save_generated_quests has sent its bulk request.
SaveDone == call.fn = "save_generated_quests" /\ call.stage = "done"

\* The quests of the list that a complete save leaves in the index: of
\* several quests with one title the last one.
KeptOfList ==
    {i \in 1..Len(call.documents) :
        \A j \in (i + 1)..Len(call.documents) :
            DocId(call.documents[j]) # DocId(call.documents[i])}

\* When the call began the index held what a complete save of the same
\* list on the same day leaves in it.
SavedBefore ==
    \A i \in KeptOfList :
        \E d \in call.before : SourceOf(d) = call.documents[i]

\* The bulk request stored every quest of the list.
SaveSucceeded == SaveDone /\ returned.value.success

\* C37: saving a quest list that was already saved on the same day leaves
\* the quest index with the documents it had: each quest is written again
\* under its identifier user::club::date::title.
C37_SaveIdempotent ==
    SaveSucceeded /\ SavedBefore => quest_index.docs = call.before

\* A list of two quests that was saved completely is saved completely a
\* second time.
C37_Witness ==
    /\ SaveDone
    /\ SavedBefore
    /\ Len(call.documents) = 2
    /\ agent_calls = 2
    /\ effects.writes = 2
    /\ returned = [value |-> [success |-> TRUE, saved_count |-> 2,
                              quest_date |-> call.documents[1].date]]



\* ------------------------------------------- bedrock_service.py: service

\* len(self.model_candidates): candidate k is the k-th of the list.
NumCandidates == 6

\* What a test call _invoke_claude(model_id, "Hello") does: it returns, or
\* it raises one of the errors _find_working_model tells apart.
ProbeOutcomes == {"ok", "ValidationException", "throttling"}

\* Mutant of the loop of _find_working_model: from the last candidate
\* backwards.
NextCandidate_Reversed(probes) == NumCandidates - Len(probes)

\* for model_id in self.model_candidates: the candidate probed after the
\* probes made so far.
NextCandidate(probes) == Len(probes) + 1

\* _find_working_model probes one candidate.  After a test call that
\* returned it keeps the candidate and returns; after the last candidate
\* failed it leaves model_id None (written 0).
ProbeCandidate(outcome) ==
    /\ ~service.constructed
    /\ LET candidate == NextCandidate(service.probes)
           probes == Append(service.probes,
                            [model |-> candidate, outcome |-> outcome])
       IN  service' =
             IF outcome = "ok"
             THEN [constructed |-> TRUE, model_id |-> candidate,
                   probes |-> probes]
             ELSE [constructed |-> Len(probes) = NumCandidates,
                   model_id |-> 0, probes |-> probes]
    /\ UNCHANGED <<sqs_vars, gate_vars, call_vars, quest_index, today,
                   agent_calls, effects, handler>>

\* The parts a user request is made of: ordinary text, one of the
\* exercise_keywords, a character JSON does not allow bare in a string
\* (a double quote, a backslash, a line break), and the text
\* "}, {"title": " that closes a quest and opens another.
RequestParts == {"text", "keyword", "quote", "splice"}

UserRequests == SeqsUpTo(RequestParts, MaxKeywords)

\* _create_exercise_fallback: a constant text.
create_exercise_fallback == [template |-> "exercise", inserted |-> << >>]

\* _create_generic_fallback: the f-string puts user_request, as it is,
\* into the then_action string of each of the three quests.
create_generic_fallback(user_request) ==
    [template |-> "generic", inserted |-> user_request]

\* _create_fallback_response.
create_fallback_response(user_request) ==
    IF \E i \in 1..Len(user_request) : user_request[i] = "keyword"
    THEN create_exercise_fallback
    ELSE create_generic_fallback(user_request)

\* The text the model answered with.
ModelResponse == [template |-> "model", inserted |-> << >>]

\* len(json.loads(response)["quests"]) of a fallback response, -1 where
\* json.loads raises: each of the three quests holds the inserted text
\* once, inside a string.
QuestsIn(response) ==
    LET parts == {response.inserted[i] : i \in 1..Len(response.inserted)}
        splices == Cardinality({i \in 1..Len(response.inserted) :
                                   response.inserted[i] = "splice"})
    IN  IF "quote" \in parts THEN -1 ELSE 3 * (1 + splices)

\* generate_quests(document_content, user_request) is called: without a
\* model it returns the fallback response at once.
GenerateQuestsCall(user_request) ==
    /\ service.constructed
    /\ call = NoCall
    /\ agent_calls' = agent_calls + 1
    /\ effects' = NoEffects
    /\ call' = [fn |-> "generate_quests", user_request |-> user_request,
                stage |-> IF service.model_id = 0 THEN "done" ELSE "invoke",
                failed |-> FALSE]
    /\ returned' = IF service.model_id = 0
                   THEN [value |-> create_fallback_response(user_request)]
                   ELSE NoResult
    /\ UNCHANGED <<sqs_vars, gate_vars, outer_vars, quest_index, today>>

\* _invoke_claude(self.model_id, prompt) returns the model's text, or
\* raises: generate_quests catches the exception.
GenerateQuestsInvoke(ok) ==
    /\ call.fn = "generate_quests"
    /\ call.stage = "invoke"
    /\ effects' = [effects EXCEPT !.bedrock = @ + 1]
    /\ call' = [call EXCEPT !.stage = "done", !.failed = ~ok]
    /\ returned' = IF ok
                   THEN [value |-> ModelResponse]
                   ELSE [value |-> create_fallback_response(call.user_request)]
    /\ UNCHANGED <<sqs_vars, gate_vars, outer_vars, quest_index, today,
                   agent_calls>>

\* The caller takes the response.
GenerateQuestsReturn ==
    /\ call.fn = "generate_quests"
    /\ call.stage = "done"
    /\ call' = NoCall
    /\ returned' = NoResult
    /\ effects' = NoEffects
    /\ UNCHANGED <<sqs_vars, gate_vars, outer_vars, quest_index, today,
                   agent_calls>>

\* The module builds its one BedrockService, then serves calls.
BedrockNext ==
    \/ \E outcome \in ProbeOutcomes : ProbeCandidate(outcome)
    \/ /\ agent_calls < MaxFeedbacks
       /\ \E user_request \in UserRequests : GenerateQuestsCall(user_request)
    \/ \E ok \in BOOLEAN : GenerateQuestsInvoke(ok)
    \/ GenerateQuestsReturn

BedrockSpec == SaveInit /\ [][BedrockNext]_vars


\* ---------------------------------------------------------------- C38

\* generate_quests has its response.
GenerateQuestsDone == call.fn = "generate_quests" /\ call.stage = "done"

\* The response is a fallback response.
IsFallback == returned.value.template # "model"

\* generate_quests returns a text: without a model it made no model call
\* and returns the fallback response of the request, and after a model
\* call that raised it returns the same.
FallsBack ==
    /\ "value" \in DOMAIN returned
    /\ service.model_id = 0 =>
           /\ effects.bedrock = 0
           /\ returned.value = create_fallback_response(call.user_request)
    /\ call.failed =>
           returned.value = create_fallback_response(call.user_request)

\* C38: generate_quests never raises; without a working model it makes no
\* model call and returns the fallback response, after a failed model
\* call it returns the same fallback, and every fallback response holds
\* exactly 3 quests.
C38_FallbackOfThreeQuests ==
    GenerateQuestsDone =>
        /\ FallsBack
        /\ IsFallback => QuestsIn(returned.value) = 3

\* The first three parts of C38.
GenerateQuestsFallsBack == GenerateQuestsDone => FallsBack

\* Every fallback response for a request of ordinary text and keywords
\* holds exactly 3 quests.
PlainRequestsGetThreeQuests ==
    /\ GenerateQuestsDone
    /\ IsFallback
    /\ \A i \in 1..Len(call.user_request) :
           call.user_request[i] \in {"text", "keyword"}
    => QuestsIn(returned.value) = 3



\* ---------------------------------------------------------------- C39

\* The candidates whose test call returned.
Working ==
    {service.probes[i].model :
        i \in {j \in 1..Len(service.probes) :
                  service.probes[j].outcome = "ok"}}

\* The candidates that were probed.
Probed == {service.probes[i].model : i \in 1..Len(service.probes)}

\* C39: _find_working_model probes the candidates in the order of the
\* list and stops at the first success: afterwards model_id is the
\* earliest candidate whose test call succeeded, no later candidate was
\* probed, and model_id is None exactly when every candidate failed.
C39_FirstWorkingModel ==
    service.constructed =>
        /\ \A i \in 1..Len(service.probes) : service.probes[i].model = i
        /\ service.model_id # 0 =>
               /\ service.model_id \in Working
               /\ \A c \in Working : c >= service.model_id
               /\ \A c \in Probed : c <= service.model_id
        /\ service.model_id = 0 <=>
               /\ Probed = 1..NumCandidates
               /\ Working = {}

\* The first two candidates failed, each in its way, and the third works.
C39_Witness ==
    /\ service.constructed
    /\ service.model_id = 3
    /\ service.probes[1].outcome = "ValidationException"
    /\ service.probes[2].outcome = "throttling"

====
